---------------------------- MODULE Spec2Model ----------------------------
(***************************************************************************)
(* cv-chatbot: the /chat request pipeline of server.js.                    *)
(*                                                                         *)
(* The repository holds three revisions of the server:                     *)
(*   "v1"  src/server.js lines 1-436     (English boundary rules)          *)
(*   "v2"  src/unnamed/part_002          (multilingual boundary rules)     *)
(*   "v3"  src/server.js lines 441-830   (sessions, OpenAI language call)  *)
(* The variable `build` says which revision is deployed.                   *)
(*                                                                         *)
(* Text is a sequence of atoms.  An atom is either one separator character *)
(* (a whitespace or a punctuation character) or a maximal run of other     *)
(* characters (a word).  Two word atoms are never adjacent, so a regular   *)
(* expression \bw\b with an ASCII word w matches exactly at an atom equal  *)
(* to w.  String literals the code only passes around (answers) are one    *)
(* atom.                                                                   *)
(***************************************************************************)
EXTENDS Integers, Sequences, FiniteSets, TLC

(* ------------------------------ bounds -------------------------------- *)
\* requests received in one behaviour
MaxRequests == 2
\* requests of one session in a behaviour of SpecHist
HistRequests == 12
\* requests in flight at the same time in a behaviour of SpecConc
ConcRequests == 3
\* requests served one after the other in a behaviour of SpecStyle
StyleRequests == 5
\* requests of a behaviour of SpecGen
GenRequests == 1
\* the longest text, in atoms, a function is called on in SpecUnit
MaxLen == 3
\* the turns a session has completed before a behaviour of SpecTurns starts
PriorTurns == 9
LiveRequests == 2

(* ------------------------- sequence helpers --------------------------- *)
Range(s) == {s[i] : i \in DOMAIN s}

RECURSIVE Sum(_)
Sum(s) == IF s = <<>> THEN 0 ELSE Head(s) + Sum(Tail(s))

\* Array.prototype.slice(from) with from >= 0, 0-based
SliceFrom(s, from) == SubSeq(s, from + 1, Len(s))
\* Array.prototype.slice(0, n)
SliceTo(s, n) == SubSeq(s, 1, IF n < Len(s) THEN n ELSE Len(s))
\* Array.prototype.slice(-n)
SliceLast(s, n) == SubSeq(s, (IF Len(s) > n THEN Len(s) - n ELSE 0) + 1, Len(s))

\* the parts lo..hi of a sequence of sequences, joined end to end
RECURSIVE FlatRange(_, _, _)
FlatRange(parts, lo, hi) ==
  IF lo > hi THEN <<>>
  ELSE IF lo = hi THEN parts[lo]
  ELSE LET mid == (lo + hi) \div 2 IN
       FlatRange(parts, lo, mid) \o FlatRange(parts, mid + 1, hi)
Flat(parts) == FlatRange(parts, 1, Len(parts))

\* F(e), with e evaluated once before F is applied to its value: inside
\* ENABLED, TLC evaluates the argument of a definition again at each place
\* the body mentions it
Eager(F(_), e) == CHOOSE y \in {F(x) : x \in {e}} : TRUE

(* ------------------------------- text --------------------------------- *)
\* the characters \s matches
WS == {" ", "\t"}
Punct == {"?", ".", "!", ",", "-"}
IsWord(a) == a \notin WS \cup Punct

\* String.prototype.toLowerCase, atom by atom
LowerAtom(a) ==
  CASE a = "How" -> "how"
    [] a = "Gannaca" -> "gannaca"
    [] a = "Warum" -> "warum"
    [] a = "Rolle" -> "rolle"
    [] a = "Ihre" -> "ihre"
    [] a = "Stärken" -> "stärken"
    [] a = "Why" -> "why"
    [] a = "Vârsta" -> "vârsta"
    [] a = "Heißt" -> "heißt"
    [] a = "I" -> "i"
    [] a = "I've" -> "i've"
    [] a = "My" -> "my"
    [] a = "Cristina" -> "cristina"
    [] a = "Merisoiu" -> "merisoiu"
    [] a = "DE" -> "de"
    [] a = "English" -> "english"
    [] a = "Skills" -> "skills"
    [] a = "Me" -> "me"
    [] a = "She" -> "she"
    [] a = "RO" -> "ro"
    [] a = "Cancom" -> "cancom"
    [] a = "Contact" -> "contact"
    [] OTHER -> a  \* also U+2115, a capital that has no lower-case form
toLowerCase(s) == [i \in DOMAIN s |-> LowerAtom(s[i])]

\* .normalize('NFD').replace(/[\u0300-\u036f]/g, ''): the base letters stay;
\* the sharp s has no decomposition and stays as it is
StripMarksAtom(a) ==
  CASE a = "stärken" -> "starken"
    [] a = "für" -> "fur"
    [] a = "Stärken" -> "Starken"
    [] a = "vârsta" -> "varsta"
    [] a = "Vârsta" -> "Varsta"
    [] OTHER -> a
stripMarks(s) == [i \in DOMAIN s |-> StripMarksAtom(s[i])]

\* .replace(/\s+/g, ' '): every maximal run of whitespace becomes one space
collapseWs(s) ==
  Flat([i \in DOMAIN s |->
          IF s[i] \notin WS THEN <<s[i]>>
          ELSE IF i < Len(s) /\ s[i + 1] \in WS THEN <<>> ELSE <<" ">>])

\* String.prototype.trim
RECURSIVE trimStart(_)
trimStart(s) == IF s # <<>> /\ Head(s) \in WS THEN trimStart(Tail(s)) ELSE s
RECURSIVE trimEnd(_)
trimEnd(s) ==
  IF s # <<>> /\ s[Len(s)] \in WS THEN trimEnd(SubSeq(s, 1, Len(s) - 1)) ELSE s
trim(s) == trimEnd(trimStart(s))

\* a normalize that leaves the whitespace at the two ends
normalizeNoTrim(s) == collapseWs(stripMarks(toLowerCase(s)))

normalize(s) ==
  Eager(trim, Eager(collapseWs, Eager(stripMarks, Eager(toLowerCase, s))))

\* String.prototype.length: separators are one character
AtomLen(a) ==
  CASE a \in {"How", "how", "old", "she", "Why", "why"} -> 3
    [] a \in {"is"} -> 2
    [] a \in {"role", "this", "Ihre", "ihre"} -> 4
    [] a \in {"Warum", "warum", "diese", "Rolle", "rolle", "Heißt", "heißt"} -> 5
    [] a \in {"salary", "skills", "cancom", "Vârsta", "vârsta"} -> 6
    [] a \in {"Gannaca", "gannaca", "Stärken", "stärken", "hobbies", "contact"} -> 7
    [] OTHER -> 1
length(s) == Sum([i \in DOMAIN s |-> AtomLen(s[i])])

(* A pattern is a sequence of atoms in which " " stands for \s+ and every  *)
(* other atom for itself; it starts and ends with a word, which is where   *)
(* the code's patterns have their \b.                                      *)
RECURSIVE skipWs(_, _)
skipWs(s, i) == IF i <= Len(s) /\ s[i] \in WS THEN skipWs(s, i + 1) ELSE i

RECURSIVE matchAt(_, _, _, _)
matchAt(s, i, p, k) ==
  IF k > Len(p) THEN TRUE
  ELSE IF i > Len(s) THEN FALSE
  ELSE IF p[k] = " "
       THEN s[i] \in WS /\ matchAt(s, skipWs(s, i), p, k + 1)
       ELSE s[i] = p[k] /\ matchAt(s, i + 1, p, k + 1)

\* RegExp.prototype.test for /\b(p1|p2|...)\b/
test(patterns, s) == \E p \in patterns : \E i \in DOMAIN s : matchAt(s, i, p, 1)

\* the words that hold another word as a proper prefix / suffix / inner part
ProperPrefix == {<<"skill", "skills">>, <<"role", "rollen">>}
ProperSuffix == {<<"old", "gold">>}
ProperInfix == {<<"kill", "skills">>}
PrefixOf(a, b) == a = b \/ <<a, b>> \in ProperPrefix
SuffixOf(a, b) == a = b \/ <<a, b>> \in ProperSuffix
InfixOf(a, b) == PrefixOf(a, b) \/ SuffixOf(a, b) \/ <<a, b>> \in ProperInfix

\* String.prototype.includes(t) for a non-empty t, and a pattern without \b:
\* the first atom of t may end an atom of q and the last may begin one
includes(q, t) ==
  \E i \in DOMAIN q :
    /\ i + Len(t) - 1 <= Len(q)
    /\ \A k \in DOMAIN t :
         IF Len(t) = 1 THEN InfixOf(t[k], q[i])
         ELSE IF k = 1 THEN SuffixOf(t[k], q[i])
         ELSE IF k = Len(t) THEN PrefixOf(t[k], q[i + k - 1])
         ELSE t[k] = q[i + k - 1]

(* ------------------------ language heuristic -------------------------- *)
\* the atoms that hold one of the letters of /[äöüß]/i, of /[ăâîșşţțșț]/i
DeCharAtoms == {"Stärken", "stärken", "Heißt", "heißt", "für"}
RoCharAtoms == {"Vârsta", "vârsta"}
DeWords ==
  {"der", "die", "das", "und", "mit", "wie", "was", "sind", "ihre", "starken",
   "schwachen", "warum", "arbeitsumfeld", "lebenslauf", "rollen",
   "faehigkeiten", "werkzeuge"}
RoWords ==
  {"este", "sunt", "care", "ce", "cum", "ea", "si", "intr", "din", "de", "la",
   "in", "puncte", "tari", "slabe", "angajam", "mediu", "munca", "abilitati",
   "fluxuri"}
Words(ws) == {<<w>> : w \in ws}

guessLang(text) ==
  LET t == normalize(text) IN
  IF \E i \in DOMAIN text : text[i] \in DeCharAtoms THEN "de"
  ELSE IF \E i \in DOMAIN text : text[i] \in RoCharAtoms THEN "ro"
  ELSE IF test(Words(DeWords), t) THEN "de"
  ELSE IF test(Words(RoWords), t) THEN "ro"
  ELSE "en"

Langs == {"en", "de", "ro"}

(* --------------------------- tag detection ---------------------------- *)
COMPANY_TAGS == <<"gannaca", "ingram", "cancom", "covestro">>
SECTION_TAGS ==
  <<"education", "skills", "tools", "languages", "certifications", "early">>
\* null
NoTag == ""

\* the rules of detectTag in their order; the rule "early" has no \b
TagRules ==
  << [tag |-> "gannaca", words |-> {"gannaca"}],
     [tag |-> "ingram", words |-> {"ingram"}],
     [tag |-> "cancom", words |-> {"cancom"}],
     [tag |-> "covestro", words |-> {"covestro"}],
     [tag |-> "education", words |-> {"education", "university", "bachelor"}],
     [tag |-> "skills", words |-> {"skill", "skills"}],
     [tag |-> "tools", words |-> {"tool", "tools", "system", "systems", "stack"}],
     [tag |-> "languages",
      words |-> {"language", "languages", "romanian", "german", "english"}],
     [tag |-> "early", words |-> {}],
     [tag |-> "certifications",
      words |-> {"certification", "certifications", "training", "course",
                 "courses"}] >>
EarlyParts ==
  {<<"early", " ", "experience">>, <<"voluntary", " ", "roles">>, <<"2008">>,
   <<"2016">>}

tagRuleMatches(i, qLower) ==
  IF TagRules[i].tag = "early"
  THEN \E t \in EarlyParts : includes(qLower, t)
  ELSE test(Words(TagRules[i].words), qLower)

\* a detector in which the last matching rule wins
detectTagLast(qLower) ==
  LET hits == {i \in DOMAIN TagRules : tagRuleMatches(i, qLower)} IN
  IF hits = {} THEN NoTag
  ELSE TagRules[CHOOSE i \in hits : \A j \in hits : i >= j].tag

detectTag(qLower) ==
  LET hits == {i \in DOMAIN TagRules : tagRuleMatches(i, qLower)} IN
  IF hits = {} THEN NoTag
  ELSE TagRules[CHOOSE i \in hits : \A j \in hits : i <= j].tag

(* --------------------- boundary and interview rules -------------------- *)
P1(a) == <<a>>
P2(a, b) == <<a, " ", b>>
P3(a, b, c) == <<a, " ", b, " ", c>>
P4(a, b, c, d) == <<a, " ", b, " ", c, " ", d>>

AgeOpts ==
  << <<"Age isn't the useful signal here. Focus on capability, outcomes, and fit.">>,
     <<"Let's optimize for signal: skills, outcomes, and alignment matter more than age.">>,
     <<"What's relevant is impact and fit. Age doesn't predict either.">> >>
KidsOpts ==
  << <<"Personal details aren't relevant. Happy to discuss mentoring and team development instead.">>,
     <<"Let's keep it professional. Ask about enablement, leadership, or outcomes.">>,
     <<"That's outside scope. You shouldn't ask that.">> >>
MaritalOpts ==
  << <<"Let's keep the focus on experience, decision-making, and outcomes.">>,
     <<"Professional scope only: strengths, track record, and fit.">>,
     <<"Happy to cover roles, skills, and results - personal details aren't part of this profile.">> >>
StrengthsOpts ==
  << <<"Strengths: fast pattern recognition, crisp communication, and reliable delivery in complex environments.">>,
     <<"She connects strategy to execution quickly, communicates with precision, and delivers predictably.">>,
     <<"Core strengths: systems thinking, concise articulation, and making complex work legible for teams.">> >>
WeaknessesOpts ==
  << <<"She tends to over-polish; mitigated by time-boxing and clear 'good-enough' criteria.">>,
     <<"Perfectionist streak - managed with deadlines, peer review, and incremental releases.">>,
     <<"Bias toward optimizing details; balanced by prioritizing impact and shipping cadence.">> >>
ChallengesOpts ==
  << <<"Marketplace onboarding amid shifting systems - she aligned stakeholders and stabilized operations.">>,
     <<"Conflicting integrations and timelines - she mapped risks, reset scope, and restored predictability.">>,
     <<"Multiple moving dependencies - she clarified ownership and rebuilt a reliable flow.">> >>
HireOpts ==
  << <<"Of course. Hiring her means gaining someone who cuts noise, creates clarity, and executes reliably.">>,
     <<"If the goal is precision, adaptability, and structured delivery - the hire is self-evident.">>,
     <<"Her track record shows: she builds systems, translates vision into execution, and sustains outcomes.">> >>
SalaryOpts ==
  << <<"Salary expectations depend on role scope and market benchmarks - best aligned during formal discussions.">>,
     <<"Compensation is context-driven. Alignment with responsibilities and market standards is the right frame.">>,
     <<"That's a structured conversation for the hiring stage - tied to scope, value, and benchmarks.">> >>
ContactOpts ==
  << <<"Her contact details are provided in the original CV PDF you received.">> >>
ThinksOpts ==
  << <<"She thinks in systems: spot patterns fast, frame the problem cleanly, ...">>,
     <<"She thinks fast, connects the unexpected, and solves with sharp clarity. ...">>,
     <<"She connects dots faster than most realize, brings clarity where others stall, ...">> >>
WorkOpts ==
  << <<"She absorbs context fast, spots what actually matters, ...">>,
     <<"She mixes strategic focus with creative improvisation - ...">> >>
CommOpts ==
  << <<"She communicates with intent: every word serves a purpose. ...">>,
     <<"Her communication cuts through noise. ...">> >>
DecisionOpts ==
  << <<"She makes fast, informed decisions when speed matters - ...">>,
     <<"She's not afraid to take responsibility. ...">> >>
WhoOpts ==
  << <<"She's the person who asks the question no one else thought to. ...">>,
     <<"Think strategic operator meets pattern disruptor. ...">> >>

\* the if-chain of smartBoundaryAndInterview, first revision: English patterns
BoundaryRulesV1 ==
  << [topic |-> "age", opts |-> AgeOpts,
      patterns |-> {P2("how", "old"), P1("age"), P2("years", "old")}],
     [topic |-> "kids", opts |-> KidsOpts,
      patterns |-> {P1("kids"), P1("children"), P1("child")}],
     [topic |-> "marital", opts |-> MaritalOpts,
      patterns |-> {P1("single"), P1("married"), P1("relationship"),
                    P1("partner"), P1("family")}],
     [topic |-> "strengths", opts |-> StrengthsOpts,
      patterns |-> {P1("strength"), P1("strengths")}],
     [topic |-> "weaknesses", opts |-> WeaknessesOpts,
      patterns |-> {P1("weakness"), P1("weaknesses"), P1("flaw"), P1("flaws")}],
     [topic |-> "challenges", opts |-> ChallengesOpts,
      patterns |-> {P1("challenge"), P2("hard", "time"), P1("hardtime"),
                    P1("difficult"), P1("hardest")}],
     [topic |-> "hire", opts |-> HireOpts,
      patterns |-> {P3("should", "we", "hire"), P2("hire", "her")}],
     [topic |-> "salary", opts |-> SalaryOpts,
      patterns |-> {P1("salary"), P1("compensation"), P1("pay")}],
     [topic |-> "contact", opts |-> ContactOpts,
      patterns |-> {P1("contact"), P1("email"), P1("phone")}],
     [topic |-> "thinks", opts |-> ThinksOpts,
      patterns |-> {P4("how", "does", "she", "think"), P2("thinking", "style"),
                    P3("how", "she", "thinks"), P2("thought", "process")}],
     [topic |-> "work", opts |-> WorkOpts,
      patterns |-> {P2("work", "style"), P4("how", "does", "she", "work"),
                    P3("how", "she", "works"), P3("way", "of", "working"),
                    P2("operating", "style")}],
     [topic |-> "communication", opts |-> CommOpts,
      patterns |-> {P2("communication", "style"),
                    P3("how", "she", "communicates"), P1("communicator")}],
     [topic |-> "decision", opts |-> DecisionOpts,
      patterns |-> {P2("decision", "making"), <<"decision", "-", "making">>,
                    P3("how", "she", "decides"), P2("decision", "style")}],
     [topic |-> "who", opts |-> WhoOpts,
      patterns |-> {P4("what", "is", "she", "like"), P3("who", "is", "she"),
                    P2("describe", "her"), P2("her", "essence")}] >>

\* the German and Romanian patterns the second revision adds to each rule
AddedPatternsV2 ==
  << {P2("wie", "alt"), P1("alter"), P2("cati", "ani"), P1("varsta"),
      P2("ani", "are")},
     {P1("kinder"), P1("kind"), P1("copii"), P1("copil")},
     {P1("verheiratet"), P1("ledig"), P1("beziehung"), P1("familie"),
      P1("casatorita"), P1("casatorit"), P1("relatie"), P1("partener")},
     {P1("starken"), P1("starke"), P2("puncte", "tari"), P1("forte")},
     {P1("schwache"), P1("schwachen"), P1("mangel"), P2("punct", "slab"),
      P2("puncte", "slabe"), P1("slabiciune")},
     {P1("herausforderung"), P1("schwierig"), P1("provocare"), P1("dificil"),
      P1("greu")},
     {P4("sollen", "wir", "sie", "einstellen"), P1("einstellen"),
      P3("sa", "o", "angajam"), P1("angajam")},
     {P1("gehalt"), P1("bezahlung"), P1("vergutung"), P1("salariu"),
      P1("compensare"), P1("remuneratie")},
     {P1("kontakt"), P1("telefon"), P1("adresa")},
     {P3("wie", "denkt", "sie"), P1("denkweise"), P2("cum", "gandeste"),
      P3("stil", "de", "gandire")},
     {P1("arbeitsstil"), P3("wie", "arbeitet", "sie"), P3("stil", "de", "lucru"),
      P2("cum", "lucreaza")},
     {P1("kommunikationsstil"), P3("wie", "kommuniziert", "sie"),
      P3("stil", "de", "comunicare"), P2("cum", "comunica")},
     {P1("entscheidungsfindung"), P3("wie", "entscheidet", "sie"),
      P2("luarea", "deciziilor"), P2("cum", "decide")},
     {P3("wie", "ist", "sie"), P3("wer", "ist", "sie"), P3("cum", "este", "ea"),
      P3("cine", "este", "ea")} >>

BoundaryRulesV2 ==
  [i \in DOMAIN BoundaryRulesV1 |->
     [BoundaryRulesV1[i] EXCEPT
        !.patterns = BoundaryRulesV1[i].patterns \cup AddedPatternsV2[i]]]

\* the topics that are personal boundaries; the other rules are interview themes
BoundaryTopics == {"age", "kids", "marital", "salary", "contact"}

\* the index of the first rule of the chain whose condition holds, 0 for none
firstMatch(rules, q) ==
  LET hits == {i \in DOMAIN rules : test(rules[i].patterns, q)} IN
  IF hits = {} THEN 0 ELSE CHOOSE i \in hits : \A j \in hits : i <= j

(* ------------------------------- state -------------------------------- *)
VARIABLES
  build,          \* the deployed revision: "v1", "v2" or "v3"
  KB,             \* the chunks of embeddings.json, [] when the file is missing
  INTERVIEW,      \* INTERVIEW.clusters of interview.i18n.json
  conversations,  \* Map sessionId -> history (third revision)
  rrMap,          \* Map question key -> number of pickVariant calls
  req,            \* the request slots: the locals of each /chat handler call
  received,       \* the number of requests received so far
  unit            \* a function of the server called on its own: its name,
                  \* its arguments and what it returned

vars == <<build, KB, INTERVIEW, conversations, rrMap, req, received, unit>>

(* ----------------------------- messages ------------------------------- *)
MsgEmpty == <<>>
MsgSpaces == <<" ", "\t">>
MsgAge == <<"How", " ", "old", " ", "is", " ", "she", "?">>
MsgSalary == <<"Gannaca", " ", "salary", " ", "contact">>
MsgWarum == <<"Warum", " ", "diese", " ", "Rolle", "?">>
MsgStaerken == <<"Ihre", " ", "Stärken", "?">>
MsgSkills == <<"skills", "?">>
MsgCancom == <<"cancom", " ", "role">>
MsgGannaca == <<"gannaca", " ", "role">>
MsgWhy == <<"Why", " ", "this", " ", "role", "?">>
MsgHobbies == <<"hobbies">>
MsgSkillsUpper == <<" ", "Skills", "?">>

\* the message texts clients send
Messages ==
  {MsgEmpty, MsgSpaces, MsgAge, MsgSalary, MsgWarum, MsgSkills, MsgCancom,
   MsgGannaca, MsgWhy, MsgHobbies}

(* --------------------------- overrides -------------------------------- *)
\* qLower.replace(/[?.!]/g, ' ')
replacePunct(s) == [i \in DOMAIN s |-> IF s[i] \in {"?", ".", "!"} THEN " " ELSE s[i]]

\* smartBoundaryAndInterview: the rule that answers (0: the function returns
\* null); the answer is opts[Math.floor(Math.random() * opts.length)]
smartBoundaryAndInterviewV1(qLower) ==
  firstMatch(BoundaryRulesV1, trim(replacePunct(qLower)))
\* a matcher that tests the raw question, not normalize(question)
smartBoundaryAndInterviewRaw(question) ==
  firstMatch(BoundaryRulesV2, question)
smartBoundaryAndInterviewV2(question) ==
  firstMatch(BoundaryRulesV2, normalize(question))

\* the rule each revision's function answers a message with, worked out once
\* per message text: the first revision is handed qLower, the second message
OverrideRules ==
  [m \in Messages \cup {MsgStaerken, MsgSkillsUpper} |->
     [v1 |-> smartBoundaryAndInterviewV1(toLowerCase(m)),
      v2 |-> smartBoundaryAndInterviewV2(m)]]

\* the rule that answers the message in the deployed revision; the third
\* revision has no smartBoundaryAndInterview
overrideRule(message) ==
  IF build = "v1" THEN OverrideRules[message].v1
  ELSE IF build = "v2" THEN OverrideRules[message].v2
  ELSE 0
overrideOpts(message) ==
  IF overrideRule(message) = 0 THEN <<>>
  ELSE IF build = "v1" THEN BoundaryRulesV1[overrideRule(message)].opts
  ELSE BoundaryRulesV2[overrideRule(message)].opts

(* ------------------------- interview answers -------------------------- *)
\* a key of a cluster is absent, or holds a list
Absent == [present |-> FALSE, items |-> <<>>]
List(xs) == [present |-> TRUE, items |-> xs]
\* (x || [])
OrEmpty(x) == IF x.present THEN x.items ELSE <<>>

trigKey(lang) ==
  IF lang = "de" THEN "triggers_de" ELSE IF lang = "ro" THEN "triggers_ro"
  ELSE "triggers_en"
ansKey(lang) ==
  IF lang = "de" THEN "answers_de" ELSE IF lang = "ro" THEN "answers_ro"
  ELSE "answers_en"

\* triggers.some(t => t && q === t)
someTriggerEqual(triggers, q) ==
  \E i \in DOMAIN triggers : triggers[i] # <<>> /\ q = triggers[i]

\* triggers.some(t => t && q.includes(t))
someTrigger(triggers, q) ==
  \E t \in {triggers[i] : i \in DOMAIN triggers} : t # <<>> /\ includes(q, t)

\* the pool of the first cluster of the loop that returns, <<>> when none does
firstPool(pools) ==
  LET hits == {i \in DOMAIN pools : pools[i] # <<>>} IN
  IF hits = {} THEN <<>> ELSE pools[CHOOSE i \in hits : \A j \in hits : i <= j]

\* const lang = guessLang(q) of the first revision's interviewAnswer and
\* const lang = guessLang(qNorm) of the second's
interviewLangV1(question) == guessLang(toLowerCase(question))
interviewLangV2(question) == guessLang(normalize(question))

\* first revision: the second declaration of interviewAnswer is the one in force
interviewAnswerV1(question) ==
  LET q == toLowerCase(question)
      lang == interviewLangV1(question)
      pool(c) ==
        IF someTrigger([i \in DOMAIN OrEmpty(c[trigKey(lang)]) |->
                          trim(toLowerCase(OrEmpty(c[trigKey(lang)])[i]))], q)
        THEN OrEmpty(c[ansKey(lang)])
        ELSE <<>>
  IN firstPool([i \in DOMAIN INTERVIEW |-> pool(INTERVIEW[i])])

\* the loop over the triggers of the language: pool = c[ansKey] || c.answers_en || []
langPass(qNorm, lang) ==
  LET pool(c) ==
        IF someTrigger([i \in DOMAIN OrEmpty(c[trigKey(lang)]) |->
                          normalize(OrEmpty(c[trigKey(lang)])[i])], qNorm)
        THEN IF c[ansKey(lang)].present THEN c[ansKey(lang)].items
             ELSE OrEmpty(c.answers_en)
        ELSE <<>>
  IN firstPool([i \in DOMAIN INTERVIEW |-> pool(INTERVIEW[i])])

\* the second loop, over the English triggers:
\* pool = (c[ansKey] && c[ansKey].length ? c[ansKey] : c.answers_en) || []
englishPass(qNorm, lang) ==
  LET pool(c) ==
        IF someTrigger([i \in DOMAIN OrEmpty(c.triggers_en) |->
                          normalize(OrEmpty(c.triggers_en)[i])], qNorm)
        THEN IF c[ansKey(lang)].present /\ c[ansKey(lang)].items # <<>>
             THEN c[ansKey(lang)].items
             ELSE OrEmpty(c.answers_en)
        ELSE <<>>
  IN firstPool([i \in DOMAIN INTERVIEW |-> pool(INTERVIEW[i])])

interviewAnswerV2(question) ==
  LET qNorm == normalize(question)
      lang == interviewLangV2(question)
  IN IF langPass(qNorm, lang) # <<>> THEN langPass(qNorm, lang)
     ELSE englishPass(qNorm, lang)

interviewAnswerV3(question, lang) ==
  Eager(LAMBDA qNorm : langPass(qNorm, lang), normalize(question))

\* the pool interviewAnswer draws its return value from; <<>>: it returns null
interviewAnswer(question, lang) ==
  IF INTERVIEW = <<>> THEN <<>>
  ELSE IF build = "v1" THEN interviewAnswerV1(question)
  ELSE IF build = "v2" THEN interviewAnswerV2(question)
  ELSE interviewAnswerV3(question, lang)

(* ----------------------------- retrieval ------------------------------ *)
(* Embeddings are integer vectors whose norm is an integer, and a score is *)
(* kept in hundredths (0.3 is 30), which is exact for these vectors.       *)
Dot(a, b) == Sum([i \in DOMAIN a |-> a[i] * b[i]])
Sqrt(n) == CHOOSE r \in 0..n : r * r = n

cosineSim(a, b) ==
  LET dot == Dot(a, b)
      denom == Sqrt(Dot(a, a)) * Sqrt(Dot(b, b))
  IN \* a zero denominator becomes 1e-9, and the dot product is then 0
     IF denom = 0 THEN 0 ELSE (100 * dot) \div denom

\* KB.map(it => ({id, tag, text, score: cosineSim(qemb, it.embedding)}))
allScored(qemb) ==
  [i \in DOMAIN KB |->
     [id |-> KB[i].id, tag |-> KB[i].tag, text |-> KB[i].text,
      score |-> cosineSim(qemb, KB[i].embedding)]]

\* Math.max(...allScored.map(s => s.score))
maxScore(scored) ==
  IF scored = <<>> THEN -101  \* -Infinity: below every score
  ELSE CHOOSE m \in {scored[i].score : i \in DOMAIN scored} :
         \A i \in DOMAIN scored : scored[i].score <= m

\* a filter whose callback is true of every chunk
filterTagAll(scored, tag) == scored

\* allScored.filter(s => s.tag === desiredTag)
RECURSIVE filterTag(_, _)
filterTag(scored, tag) ==
  IF scored = <<>> THEN <<>>
  ELSE IF Head(scored).tag = tag
       THEN <<Head(scored)>> \o filterTag(Tail(scored), tag)
       ELSE filterTag(Tail(scored), tag)

\* a scope step that ranks the whole corpus when the tag has no chunk
scopePoolFallback(scored, desiredTag) ==
  IF desiredTag # NoTag /\ filterTag(scored, desiredTag) # <<>>
  THEN filterTag(scored, desiredTag) ELSE scored

\* 4) Strict scope: the pool the ranking works on
scopePool(scored, desiredTag) ==
  IF desiredTag # NoTag THEN filterTag(scored, desiredTag) ELSE scored

\* an insertion that puts a chunk before the chunks of equal score
RECURSIVE insertBeforeEqual(_, _)
insertBeforeEqual(sorted, x) ==
  IF sorted = <<>> THEN <<x>>
  ELSE IF Head(sorted).score > x.score
       THEN <<Head(sorted)>> \o insertBeforeEqual(Tail(sorted), x)
       ELSE <<x>> \o sorted

\* pool.sort((a, b) => b.score - a.score): a stable sort, highest score first
RECURSIVE insertByScore(_, _)
insertByScore(sorted, x) ==
  IF sorted = <<>> THEN <<x>>
  ELSE IF Head(sorted).score >= x.score
       THEN <<Head(sorted)>> \o insertByScore(Tail(sorted), x)
       ELSE <<x>> \o sorted
RECURSIVE sortByScore(_)
sortByScore(pool) ==
  IF pool = <<>> THEN <<>>
  ELSE insertByScore(sortByScore(SubSeq(pool, 1, Len(pool) - 1)), pool[Len(pool)])

\* a sort that works in place on the loaded corpus itself
corpusSortedInPlace(scored) ==
  LET sorted == sortByScore(scored) IN
  [i \in DOMAIN KB |-> KB[CHOOSE k \in DOMAIN KB : KB[k].id = sorted[i].id]]

\* the loaded corpus after pool.sort(...): allScored is a new array of new
\* objects (KB.map), the pool is that array or a new one (filter), and the
\* sort works in place on the pool, so KB keeps its chunks and their order
corpusAfterSort(scored) == KB

\* 5) Top-3
TopK == 3
\* a cut of the pool that is taken without sorting it
topKUnsorted(pool) == SliceTo(pool, TopK)
topK(pool) == SliceTo(sortByScore(pool), TopK)
\* topK.map((s, i) => `[${i + 1} :: ${s.tag}] ${s.text}`)
contextBlocks(top) ==
  [i \in DOMAIN top |-> [n |-> i, tag |-> top[i].tag, text |-> top[i].text]]

(* -------------------------- style variants ---------------------------- *)
VARIANTS_V1 == <<"bullets3", "impactBullets", "twoSentences", "shortPara">>
VARIANTS_V2 == <<"twoSentences", "shortPara">>

\* the pool pickVariant rotates through
variantPool(preferBullets) ==
  IF build = "v1"
  THEN IF preferBullets THEN <<"bullets3", "impactBullets">> ELSE VARIANTS_V1
  ELSE VARIANTS_V2

\* (question || '').trim().toLowerCase()
rrKey(question) == toLowerCase(trim(question))
\* rrMap.get(key) || 0
rrGet(key) == IF key \in DOMAIN rrMap THEN rrMap[key] ELSE 0
\* a selector that indexes the pool with n, not with n - 1
pickVariantFromN(question, preferBullets) ==
  LET pool == variantPool(preferBullets)
      n == rrGet(rrKey(question)) + 1
  IN pool[(n % Len(pool)) + 1]

\* pool[(n - 1) % pool.length] with n the new count of the key
pickVariant(question, preferBullets) ==
  LET pool == variantPool(preferBullets)
      n == rrGet(rrKey(question)) + 1
  IN pool[((n - 1) % Len(pool)) + 1]

\* a selector that stores the place in the pool, not the count
rrMapAfterPickWrapped(question) ==
  LET key == rrKey(question)
      n == (rrGet(key) % Len(variantPool(FALSE))) + 1
  IN [k \in DOMAIN rrMap \cup {key} |-> IF k = key THEN n ELSE rrMap[k]]

\* const n = (rrMap.get(key) || 0) + 1; rrMap.set(key, n): the map after a
\* call of pickVariant
rrMapAfterPick(question) ==
  LET key == rrKey(question)
      n == rrGet(key) + 1
  IN [k \in DOMAIN rrMap \cup {key} |-> IF k = key THEN n ELSE rrMap[k]]

(* ---------------------------- output passes --------------------------- *)
\* text.split(/\s+/) of a trimmed text: the maximal runs without whitespace
\* ''.split(/\s+/) is the one empty word
splitWs(s) ==
  LET starts(i) == s[i] \notin WS /\ (i = 1 \/ s[i - 1] \in WS)
      endOf(i) == CHOOSE j \in i..Len(s) :
                    /\ \A k \in i..j : s[k] \notin WS
                    /\ j = Len(s) \/ s[j + 1] \in WS
  IN IF s = <<>> THEN << <<>> >>
     ELSE Flat([i \in DOMAIN s |->
                  IF starts(i) THEN << SubSeq(s, i, endOf(i)) >> ELSE <<>>])

\* words.join(' ')
joinSpace(words) ==
  Flat([k \in DOMAIN words |->
          IF k = 1 THEN words[k] ELSE <<" ">> \o words[k]])

\* a cap that keeps one word more than maxWords
enforceShortLoose(text, maxWords) ==
  LET words == splitWs(trim(text)) IN
  IF Len(words) <= maxWords + 1 THEN trim(text)
  ELSE joinSpace(SliceTo(words, maxWords + 1)) \o <<"...">>

enforceShort(text, maxWords) ==
  LET words == splitWs(trim(text)) IN
  IF Len(words) <= maxWords THEN trim(text)
  ELSE \* the marker is the one character U+2026, written "..." here
       joinSpace(SliceTo(words, maxWords)) \o <<"...">>

\* s.replace(/pat/gi, rep): atoms compared without regard to case.  No
\* pattern of the code can match at two overlapping places (its first
\* word is none of its later ones), so every place that matches is replaced.
replaceAll(s, pat, rep) ==
  LET at(i) == /\ i + Len(pat) - 1 <= Len(s)
               /\ \A k \in DOMAIN pat :
                    LowerAtom(s[i + k - 1]) = LowerAtom(pat[k])
      inside(i) == \E m \in (i - Len(pat) + 1)..(i - 1) : m >= 1 /\ at(m)
  IN Flat([i \in DOMAIN s |->
             IF at(i) THEN rep ELSE IF inside(i) THEN <<>> ELSE <<s[i]>>])

enforceThirdPerson(text) ==
  LET a == replaceAll(text, <<"I", " ", "am">>, <<"She", " ", "is">>)
      b == replaceAll(a, <<"I", " ", "was">>, <<"She", " ", "was">>)
      c == replaceAll(b, <<"I", " ", "have">>, <<"She", " ", "has">>)
      d == replaceAll(c, <<"I've">>, <<"She", " ", "has">>)
      e == replaceAll(d, <<"I">>, <<"She">>)
      f == replaceAll(e, <<"my">>, <<"her">>)
  IN replaceAll(f, <<"me">>, <<"her">>)

\* the reply before the word cap: content || 'No reply.', the name
\* shortened and, in the first two revisions, enforceThirdPerson
beforeCap(content) ==
  LET raw == IF content = <<>> THEN <<"No reply.">> ELSE content
      reply == replaceAll(raw, <<"Cristina", " ", "Merisoiu">>, <<"Cristina">>)
  IN IF build = "v3" THEN reply ELSE enforceThirdPerson(reply)

\* the post-processing of the generated reply
finalize(content, maxWords) == enforceShort(beforeCap(content), maxWords)

(* ------------------------------ inputs -------------------------------- *)
\* the session ids clients send; "" is a body without sessionId
SessionIds == {"", "s1"}

Chunk(id, tag, e) == [id |-> id, tag |-> tag, text |-> <<tag>>, embedding |-> e]
\* embeddings.json: missing; a corpus without a chunk tagged cancom; a small one
KBMissing == <<>>
KBMain ==
  << Chunk(1, "gannaca", <<1, 0>>), Chunk(2, "skills", <<3, 4>>),
     Chunk(3, "gannaca", <<0, 1>>), Chunk(4, "ingram", <<4, 3>>),
     Chunk(5, "gannaca", <<3, 4>>), Chunk(6, "gannaca", <<1, 0>>) >>
KBSmall == << Chunk(1, "education", <<0, 0>>), Chunk(2, "gannaca", <<0, 1>>) >>
\* KBMain and one more chunk, whose score ties with that of chunk 5
KBTies == KBMain \o << Chunk(7, "gannaca", <<3, 4>>) >>

Cluster(ten, tde, tro, aen, ade, aro) ==
  [triggers_en |-> ten, triggers_de |-> tde, triggers_ro |-> tro,
   answers_en |-> aen, answers_de |-> ade, answers_ro |-> aro]
WhyEn == <<"why", " ", "this", " ", "role">>
WarumDe == <<"Warum", " ", "diese", " ", "Rolle">>
\* interview.i18n.json: missing; a bank that keeps the data invariant; banks
\* whose German pool is empty, or absent, for a cluster with German triggers
BankMissing == <<>>
BankGood ==
  << Cluster(List(<<WhyEn>>), List(<<WarumDe>>), Absent,
             List(<< <<"role-en-1">>, <<"role-en-2">> >>),
             List(<< <<"role-de-1">> >>), Absent) >>
BankEmptyDe ==
  << Cluster(List(<<WhyEn>>), List(<<WarumDe>>), Absent,
             List(<< <<"role-en-1">> >>), List(<<>>), Absent) >>
BankAbsentDe ==
  << Cluster(List(<<WhyEn>>), List(<<WarumDe>>), Absent,
             List(<< <<"role-en-1">> >>), Absent, Absent) >>

\* the data files a deployment loads at startup
Deployments ==
  {<<KBMain, BankGood>>, <<KBMain, BankEmptyDe>>, <<KBMain, BankAbsentDe>>,
   <<KBMissing, BankGood>>, <<KBSmall, BankMissing>>}

\* what the embedding service returns for a question
QueryEmbeddings == {<<1, 0>>, <<0, -1>>}
\* what the generation service returns as message content; <<>> is no content
Contents == {<<"I", " ", "am", " ", "Cristina", " ", "Merisoiu">>, <<>>}
\* message.content of a completion without content
NullContent == <<"null", "null">>
\* what the language call returns as message content
LangContents == {<<"en">>, <<"de">>, <<"English">>}
\* the errors a call of the OpenAI client throws: err.status and
\* err.response.status, 0 when undefined
Errors ==
  {[status |-> 429, response_status |-> 0],
   [status |-> 0, response_status |-> 429],
   [status |-> 503, response_status |-> 0],
   [status |-> 0, response_status |-> 0]}

(* ----------------------------- responses ------------------------------ *)
PleaseAsk == <<"Please ask a question.">>
NoContext == <<"I don't have Cristina's CV context loaded yet.">>
NotInScope == <<"Not in scope for the CV context.">>
Clarify(lang) ==
  IF lang = "de"
  THEN <<"Ich habe das nicht ganz verstanden. Koennten Sie die Frage umformulieren?">>
  ELSE IF lang = "ro" THEN <<"Nu am inteles intrebarea. Poti reformula?">>
  ELSE <<"I didn't quite catch that. Could you rephrase your question?">>

\* res.json({ answer })
Json(answer) ==
  [status |-> 200, answer |-> answer, error |-> "", debug |-> FALSE,
   tag |-> "", used_chunks |-> <<>>]
\* res.json({ answer, tag, used_chunks }) of the debug mode
JsonDebug(answer, tag, used) ==
  [status |-> 200, answer |-> answer, error |-> "", debug |-> TRUE,
   tag |-> tag, used_chunks |-> used]
\* a catch block that reads err.status only, not err.response.status
catchStatusOnly(err) ==
  [status |-> IF err.status = 429 THEN 429 ELSE 500, answer |-> <<>>,
   error |-> IF err.status = 429 THEN "quota_exceeded" ELSE "chat_failed",
   debug |-> FALSE, tag |-> "", used_chunks |-> <<>>]

\* the catch block
catch(err) ==
  LET status == IF err.status # 0 THEN err.status
                ELSE IF err.response_status # 0 THEN err.response_status
                ELSE 500
  IN [status |-> IF status = 429 THEN 429 ELSE 500, answer |-> <<>>,
      error |-> IF status = 429 THEN "quota_exceeded" ELSE "chat_failed",
      debug |-> FALSE, tag |-> "", used_chunks |-> <<>>]

\* used_chunks: topK.map(s => ({tag, score, preview}))
usedChunks(top) == [i \in DOMAIN top |-> [tag |-> top[i].tag, score |-> top[i].score]]

(* ---------------------------- the handler ----------------------------- *)
\* the request slots
Slots == 1..StyleRequests

\* history.length > 20, history.slice(-6)
HistoryCap == 20
RecentTurns == 6

(* The locals of a handler call.  calls lists the calls of the OpenAI      *)
(* client the request has issued, stages the steps of the handler it has   *)
(* run, err the error an awaited embedding or generation call threw, and   *)
(* responses what it has sent.  history is the part of the session history *)
(* put into the prompt, contextBlocks the context put into it, qemb the    *)
(* embedding of the question and content the generator's message content.  *)
NoErr == [status |-> -1, response_status |-> -1]

\* a slot no request has used yet
Idle ==
  [pc |-> "idle", hasMessage |-> FALSE, message |-> <<>>, sessionId |-> "",
   debug |-> FALSE, sid |-> "", detectedLang |-> "", desiredTag |-> NoTag,
   qemb |-> <<>>, topK |-> <<>>, contextBlocks |-> <<>>, variant |-> "",
   styleHint |-> "",
   maxWords |-> 0, history |-> <<>>, messages |-> <<>>, content |-> <<>>,
   calls |-> <<>>, stages |-> <<>>,
   err |-> NoErr, responses |-> <<>>]

isCompany(tag) == tag \in Range(COMPANY_TAGS)
isSection(tag) == tag \in Range(SECTION_TAGS)

\* a res.json(...) without the return: the response is sent and the handler
\* goes on
respondAndGoOn(rec, resp) == [rec EXCEPT !.responses = Append(@, resp)]

\* return res.json(...) (or the json of the catch block): the handler ends
respond(rec, resp) ==
  [rec EXCEPT !.pc = "done", !.responses = Append(@, resp)]
ran(rec, stage) == [rec EXCEPT !.stages = Append(@, stage)]
\* a call of the OpenAI client that is issued again after its first attempt
awaitRetry(rec, call, pc) ==
  [rec EXCEPT !.pc = pc, !.calls = Append(Append(@, call), call)]
\* await of a call of the OpenAI client
await(rec, call, pc) == [rec EXCEPT !.pc = pc, !.calls = Append(@, call)]

\* a truncation that keeps the first 20 entries
pushTurnKeepOldest(history, message, answer) ==
  SliceTo(history \o << [role |-> "user", content |-> message],
                        [role |-> "assistant", content |-> answer] >>, HistoryCap)

\* a truncation that keeps one entry less than the limit
pushTurnOneLess(history, message, answer) ==
  LET h == history \o << [role |-> "user", content |-> message],
                        [role |-> "assistant", content |-> answer] >>
  IN IF Len(h) > HistoryCap THEN SliceFrom(h, Len(h) - HistoryCap + 1) ELSE h

\* history.push(user); history.push(assistant); splice to the last 20
pushTurn(history, message, answer) ==
  LET h == history \o << [role |-> "user", content |-> message],
                        [role |-> "assistant", content |-> answer] >>
  IN IF Len(h) > HistoryCap THEN SliceFrom(h, Len(h) - HistoryCap) ELSE h

\* a message list that takes the oldest stored entries
chatMessagesOldest(history, question) ==
  << [role |-> "system", content |-> <<"personaSystem">>] >>
    \o SliceTo(history, RecentTurns)
    \o << [role |-> "user", content |-> question] >>

\* const messages = [{ role: 'system', content: personaSystem }];
\* messages.push(...history.slice(-6));
\* messages.push({ role: 'user', content: userContent }), the content being
\* the text built around the question
chatMessages(history, question) ==
  << [role |-> "system", content |-> <<"personaSystem">>] >>
    \o SliceLast(history, RecentTurns)
    \o << [role |-> "user", content |-> question] >>

\* a turn appended to the copy of the history the prompt was built from
historyAfterCopy(rec, answer) == pushTurn(rec.history, rec.message, answer)
\* the session's history array after the pushes of a completed turn: history
\* is the array the map holds, not a copy of it
historyAfter(rec, answer) ==
  pushTurn(conversations[rec.sid], rec.message, answer)

\* 1) overrides and 1.5) interview clusters of the first two revisions, from
\* the tag detection to the await of the embedding call
overridesAndEmbed(r, rec0) ==
  LET rec1 == ran([rec0 EXCEPT
                     !.desiredTag = detectTag(toLowerCase(rec0.message))], "tag")
      rec2 == ran(rec1, "boundary")
      opts == overrideOpts(rec0.message)
      rec3 == ran(rec2, "canned")
      pool == interviewAnswer(rec0.message, "")
  IN IF opts # <<>>
     THEN \E i \in DOMAIN opts : req' = [req EXCEPT ![r] = respond(rec2, Json(opts[i]))]
     ELSE IF pool # <<>>
     THEN \E i \in DOMAIN pool : req' = [req EXCEPT ![r] = respond(rec3, Json(pool[i]))]
     ELSE req' = [req EXCEPT ![r] = await(rec3, "embed", "awaitEmbed")]

\* !message, without the trim
isBlankNoTrim(hasMessage, message) == ~hasMessage \/ message = <<>>

\* !message || !message.trim()
isBlank(hasMessage, message) ==
  ~hasMessage \/ message = <<>> \/ trim(message) = <<>>

\* a guard that tests KB itself: an array, even an empty one, is truthy
noKBTruthy(kb) == Len(kb) < 0

\* !KB.length
noKB(kb) == Len(kb) = 0

\* a server that keeps one history for all sessions
sessionOfShared(sessionId) == "default"

\* const sid = sessionId || 'default'
sessionOf(sessionId) == IF sessionId # "" THEN sessionId ELSE "default"

\* a handler that stores the question as soon as the session is looked up
historyAtReceiveStoresQuestion(sid, message) ==
  [s \in DOMAIN conversations \cup {sid} |->
     (IF s \in DOMAIN conversations THEN conversations[s] ELSE <<>>)
       \o (IF s = sid THEN << [role |-> "user", content |-> message] >> ELSE <<>>)]

\* if (!conversations.has(sid)) conversations.set(sid, []); the lookup of the
\* history stores nothing
historyAtReceive(sid, message) ==
  IF sid \in DOMAIN conversations THEN conversations
  ELSE conversations @@ (sid :> <<>>)

\* app.post('/chat'): from the arrival of the request to its first await
Receive(r, hasMessage, message, sessionId, debug) ==
  /\ req[r].pc \in {"idle", "done"}
  /\ received' = received + 1
  /\ LET rec0 == ran([Idle EXCEPT !.hasMessage = hasMessage,
                        !.message = IF hasMessage THEN message ELSE <<>>,
                        !.sessionId = sessionId, !.debug = debug], "guards")
         sid == sessionOf(sessionId)
     IN IF isBlank(hasMessage, message)
        THEN /\ req' = [req EXCEPT ![r] = respond(rec0, Json(PleaseAsk))]
             /\ UNCHANGED <<conversations, rrMap>>
        ELSE IF noKB(KB)
        THEN /\ req' = [req EXCEPT ![r] = respond(rec0, Json(NoContext))]
             /\ UNCHANGED <<conversations, rrMap>>
        ELSE IF build = "v3"
        THEN /\ conversations' = historyAtReceive(sid, message)
             /\ req' = [req EXCEPT ![r] =
                          await(ran([rec0 EXCEPT !.sid = sid], "history"),
                                "lang", "awaitLang")]
             /\ UNCHANGED rrMap
        ELSE /\ overridesAndEmbed(r, rec0)
             /\ UNCHANGED <<conversations, rrMap>>
  /\ UNCHANGED <<build, KB, INTERVIEW, unit>>

\* detectLanguage: the content of the completion, trimmed, lower-cased and
\* validated; 'en' when it is no code, and when the call (ok = FALSE) or the
\* reading of a content that is null throws inside the function's try block
\* a classifier that returns the trimmed, lower-cased output unchecked
detectLanguageUnchecked(ok, content) ==
  LET detected == trim(toLowerCase(content)) IN
  IF ok /\ content # NullContent /\ Len(detected) = 1
  THEN detected[1] ELSE "en"

detectLanguage(ok, content) ==
  LET detected == trim(toLowerCase(content)) IN
  IF ok /\ content # NullContent /\ Len(detected) = 1 /\ detected[1] \in Langs
  THEN detected[1] ELSE "en"

\* third revision: the language call returns or fails; the handler goes on to
\* the interview clusters and to the await of the embedding call
LangReturn(r, ok, content) ==
  /\ req[r].pc = "awaitLang"
  /\ LET rec0 == req[r]
         lang == detectLanguage(ok, content)
         rec1 == ran(ran([rec0 EXCEPT
                            !.detectedLang = lang,
                            !.desiredTag = detectTag(toLowerCase(rec0.message))],
                         "tag"), "canned")
         pool == interviewAnswer(rec0.message, lang)
     IN IF pool # <<>>
        THEN \E i \in DOMAIN pool :
               /\ conversations' =
                    [conversations EXCEPT
                       ![rec0.sid] = historyAfter(rec0, pool[i])]
               /\ req' = [req EXCEPT ![r] = respond(ran(rec1, "append"), Json(pool[i]))]
        ELSE /\ req' = [req EXCEPT ![r] = await(rec1, "embed", "awaitEmbed")]
             /\ UNCHANGED conversations
  /\ UNCHANGED <<build, KB, INTERVIEW, rrMap, received, unit>>

\* the embedding call fails: the catch block answers
EmbedFail(r, err) ==
  /\ req[r].pc = "awaitEmbed"
  /\ req' = [req EXCEPT ![r] = respond([req[r] EXCEPT !.err = err], catch(err))]
  /\ UNCHANGED <<build, KB, INTERVIEW, conversations, rrMap, received, unit>>

\* the embedding call returns: 3) score, the clarify check of the third
\* revision, 4) strict scope, 5) top-3, 6) variant, 7) the prompt, up to the
\* await of the generation call
EmbedReturn(r, qemb) ==
  /\ req[r].pc = "awaitEmbed"
  /\ LET rec0 == ran([req[r] EXCEPT !.qemb = qemb], "score")
         scored == allScored(qemb)
         tag == rec0.desiredTag
         pool == scopePool(scored, tag)
         top == topK(pool)
         variant == pickVariant(rec0.message, isCompany(tag))
         key == rrKey(rec0.message)
         rec1 == ran(ran([rec0 EXCEPT
                  !.topK = top,
                  !.contextBlocks = contextBlocks(top),
                  !.variant = variant,
                  !.styleHint = IF isSection(tag) THEN "structured list" ELSE variant,
                  !.maxWords = IF isSection(tag) THEN 140 ELSE 90,
                  !.history = IF build = "v3"
                              THEN SliceLast(conversations[rec0.sid], RecentTurns)
                              ELSE <<>>,
                  !.messages = chatMessages(IF build = "v3"
                                            THEN conversations[rec0.sid]
                                            ELSE <<>>, rec0.message)],
                  "rank"), "style")
     IN IF build = "v3" /\ maxScore(scored) < 30 /\ length(rec0.message) < 15
        THEN /\ req' = [req EXCEPT ![r] =
                          respond(ran(rec0, "clarify"), Json(Clarify(rec0.detectedLang)))]
             /\ UNCHANGED <<rrMap, KB>>
        ELSE IF tag # NoTag /\ Len(pool) = 0
        THEN /\ req' = [req EXCEPT ![r] =
                          respond(ran(rec0, "scope"),
                                  IF rec0.debug THEN JsonDebug(NotInScope, "", <<>>)
                                  ELSE Json(NotInScope))]
             /\ UNCHANGED <<rrMap, KB>>
        ELSE /\ rrMap' = rrMapAfterPick(rec0.message)
             /\ req' = [req EXCEPT ![r] = await(rec1, "gen", "awaitGen")]
             /\ KB' = corpusAfterSort(scored)
  /\ UNCHANGED <<build, INTERVIEW, conversations, received, unit>>

\* the generation call fails: the catch block answers
GenFail(r, err) ==
  /\ req[r].pc = "awaitGen"
  /\ req' = [req EXCEPT ![r] = respond([req[r] EXCEPT !.err = err], catch(err))]
  /\ UNCHANGED <<build, KB, INTERVIEW, conversations, rrMap, received, unit>>

\* the generation call returns: the reply is post-processed, stored in the
\* history (third revision) and sent
GenReturn(r, content) ==
  /\ req[r].pc = "awaitGen"
  /\ LET rec0 == ran([req[r] EXCEPT !.content = content], "finalize")
         reply == finalize(content, rec0.maxWords)
         resp == IF rec0.debug
                 THEN JsonDebug(reply,
                                IF rec0.desiredTag # NoTag THEN rec0.desiredTag
                                ELSE "(auto)",
                                usedChunks(rec0.topK))
                 ELSE Json(reply)
     IN IF build = "v3"
        THEN /\ conversations' =
                  [conversations EXCEPT
                     ![rec0.sid] = historyAfter(rec0, reply)]
             /\ req' = [req EXCEPT ![r] = respond(ran(rec0, "append"), resp)]
        ELSE /\ req' = [req EXCEPT ![r] = respond(rec0, resp)]
             /\ UNCHANGED conversations
  /\ UNCHANGED <<build, KB, INTERVIEW, rrMap, received, unit>>

(* --------------------------- specification ---------------------------- *)
\* no function has been called on its own
NoUnit ==
  [fn |-> "", text |-> <<>>, ok |-> TRUE, content |-> <<>>, result |-> <<>>,
   code |-> ""]

Builds == {"v1", "v2", "v3"}

Init ==
  /\ build \in Builds
  /\ \E d \in Deployments : KB = d[1] /\ INTERVIEW = d[2]
  /\ conversations = <<>>
  /\ rrMap = <<>>
  /\ req = [r \in Slots |-> Idle]
  /\ received = 0
  /\ unit = NoUnit

\* Spec: the clients send one request at a time, MaxRequests in all
OneAtATime == {1}

Next ==
  \/ \E r \in OneAtATime, hasMessage \in BOOLEAN, message \in Messages,
        sessionId \in SessionIds, debug \in BOOLEAN :
       received < MaxRequests /\ Receive(r, hasMessage, message, sessionId, debug)
  \/ \E r \in OneAtATime, ok \in BOOLEAN, content \in LangContents :
       LangReturn(r, ok, content)
  \/ \E r \in OneAtATime, err \in Errors : EmbedFail(r, err)
  \/ \E r \in OneAtATime, qemb \in QueryEmbeddings : EmbedReturn(r, qemb)
  \/ \E r \in OneAtATime, err \in Errors : GenFail(r, err)
  \/ \E r \in OneAtATime, content \in Contents : GenReturn(r, content)

Spec == Init /\ [][Next]_vars

(* SpecHist: one client of the session revision sends up to HistRequests   *)
(* questions in one session, some answered from the interview bank and     *)
(* some by the generator.                                                  *)
HistMessages == {MsgWhy, MsgHobbies}

InitHist ==
  /\ build = "v3"
  /\ KB = KBMain /\ INTERVIEW = BankEmptyDe
  /\ conversations = <<>>
  /\ rrMap = <<>>
  /\ req = [r \in Slots |-> Idle]
  /\ received = 0
  /\ unit = NoUnit

NextHist ==
  \/ \E message \in HistMessages :
       received < HistRequests /\ Receive(1, TRUE, message, "s1", FALSE)
  \/ LangReturn(1, TRUE, <<"en">>)
  \/ EmbedReturn(1, <<1, 0>>)
  \/ GenReturn(1, <<"I", " ", "am", " ", "Cristina", " ", "Merisoiu">>)

SpecHist == InitHist /\ [][NextHist]_vars

(* SpecConc: ConcRequests requests of the session revision, of the same    *)
(* session or of two, are in flight at the same time, each in a slot of    *)
(* its own; the event loop runs the pieces of their handlers between the   *)
(* awaits in any order.                                                    *)
ConcSlots == 1..ConcRequests

NextConc ==
  \/ \E r \in ConcSlots, message \in HistMessages, sessionId \in SessionIds :
       req[r].pc = "idle" /\ Receive(r, TRUE, message, sessionId, FALSE)
  \/ \E r \in ConcSlots : LangReturn(r, TRUE, <<"en">>)
  \/ \E r \in ConcSlots : EmbedReturn(r, <<1, 0>>)
  \/ \E r \in ConcSlots : GenFail(r, [status |-> 429, response_status |-> 0])
  \/ \E r \in ConcSlots :
       GenReturn(r, <<"I", " ", "am", " ", "Cristina", " ", "Merisoiu">>)

SpecConc == InitHist /\ [][NextConc]_vars

(* SpecTurns: the concurrent requests of SpecConc, received by a server on *)
(* which session s1 has already completed PriorTurns turns with the        *)
(* question 'Why this role?', one after the other and each answered from   *)
(* the interview bank, so that the turns of the concurrent requests run    *)
(* into the truncation.                                                    *)
RECURSIVE turnsStored(_)
turnsStored(n) ==
  IF n = 0 THEN <<>>
  ELSE pushTurn(turnsStored(n - 1), MsgWhy, <<"role-en-1">>)

InitTurns ==
  /\ build = "v3"
  /\ KB = KBMain /\ INTERVIEW = BankEmptyDe
  /\ conversations = ("s1" :> turnsStored(PriorTurns))
  /\ rrMap = <<>>
  /\ req = [r \in Slots |-> Idle]
  /\ received = PriorTurns
  /\ unit = NoUnit

SpecTurns == InitTurns /\ [][NextConc]_vars

(* SpecStyle: StyleRequests requests are served one after the other, the   *)
(* n-th in slot n, so that the slots keep the requests in the order in     *)
(* which they called pickVariant.  All of them reach the generation call.  *)
StyleMessages == {MsgGannaca, MsgSkills, MsgSkillsUpper}

InitStyle ==
  /\ build \in Builds
  /\ KB = KBMain /\ INTERVIEW = BankMissing
  /\ conversations = <<>>
  /\ rrMap = <<>>
  /\ req = [r \in Slots |-> Idle]
  /\ received = 0
  /\ unit = NoUnit

NextStyle ==
  \/ \E r \in Slots, message \in StyleMessages, sessionId \in SessionIds :
       /\ r = received + 1 /\ r <= StyleRequests
       /\ r > 1 => req[r - 1].pc = "done"
       /\ build # "v3" => sessionId = ""
       /\ Receive(r, TRUE, message, sessionId, FALSE)
  \/ \E r \in Slots : LangReturn(r, TRUE, <<"en">>)
  \/ \E r \in Slots : EmbedReturn(r, <<1, 0>>)
  \/ \E r \in Slots :
       GenReturn(r, <<"I", " ", "am", " ", "Cristina", " ", "Merisoiu">>)

SpecStyle == InitStyle /\ [][NextStyle]_vars

(* SpecPick: ConcRequests requests of the session revision are in flight   *)
(* at the same time on a server without an interview bank: questions with  *)
(* a section tag, two spellings of one question key, a company question    *)
(* the corpus has no chunk for, and generation calls that fail.            *)
PickMessages == {MsgSkills, MsgSkillsUpper, MsgCancom, MsgHobbies}

InitPick ==
  /\ build = "v3"
  /\ KB = KBMain /\ INTERVIEW = BankMissing
  /\ conversations = <<>>
  /\ rrMap = <<>>
  /\ req = [r \in Slots |-> Idle]
  /\ received = 0
  /\ unit = NoUnit

NextPick ==
  \/ \E r \in ConcSlots, message \in PickMessages :
       req[r].pc = "idle" /\ Receive(r, TRUE, message, "s1", FALSE)
  \/ \E r \in ConcSlots : LangReturn(r, TRUE, <<"en">>)
  \/ \E r \in ConcSlots : EmbedReturn(r, <<1, 0>>)
  \/ \E r \in ConcSlots : GenFail(r, [status |-> 429, response_status |-> 0])
  \/ \E r \in ConcSlots :
       GenReturn(r, <<"I", " ", "am", " ", "Cristina", " ", "Merisoiu">>)

SpecPick == InitPick /\ [][NextPick]_vars

(* SpecLive: LiveRequests requests of the second or the third revision are *)
(* in flight at the same time, with every return path of the handler, on a *)
(* server with a small corpus or with none.  Each call of the OpenAI       *)
(* client a request awaits eventually returns or fails, and the event loop *)
(* then runs the handler up to its next await or to its response: that is  *)
(* the weak fairness of Settle(r), which stays enabled while the request   *)
(* awaits, whatever the other requests do.                                 *)
LiveSlots == 1..LiveRequests
LiveMessages == {MsgEmpty, MsgWhy, MsgHobbies, MsgCancom, MsgAge}

InitLive ==
  /\ build \in {"v2", "v3"}
  /\ \E d \in {<<KBSmall, BankEmptyDe>>, <<KBMissing, BankGood>>} :
       KB = d[1] /\ INTERVIEW = d[2]
  /\ conversations = <<>>
  /\ rrMap = <<>>
  /\ req = [r \in Slots |-> Idle]
  /\ received = 0
  /\ unit = NoUnit

\* the call the request in slot r awaits returns or fails
Settle(r) ==
  \/ \E ok \in BOOLEAN : LangReturn(r, ok, <<"en">>)
  \/ \E err \in Errors : EmbedFail(r, err)
  \/ \E qemb \in {<<0, 1>>, <<0, -1>>} : EmbedReturn(r, qemb)
  \/ \E err \in Errors : GenFail(r, err)
  \/ GenReturn(r, <<"ok">>)

NextLive ==
  \/ \E r \in LiveSlots, message \in LiveMessages :
       req[r].pc = "idle" /\ Receive(r, TRUE, message, "s1", FALSE)
  \/ \E r \in LiveSlots : Settle(r)

SpecLive ==
  InitLive /\ [][NextLive]_vars /\ \A r \in LiveSlots : WF_vars(Settle(r))

(* SpecGen: the path of a request through retrieval and generation, with   *)
(* corpus scores that tie and with replies of the generator around the two *)
(* word caps.                                                              *)
\* n words, one space between them
Filler(n) == [i \in 1..(2 * n - 1) |-> IF i % 2 = 1 THEN "w" ELSE " "]
ReplyContents ==
  { <<>>,
    <<"I", " ", "am", " ", "Cristina", " ", "Merisoiu", ".">>,
    <<" ", "Me", ",", " ", "\t", "my", " ", "role", " ">>,
    Filler(90), Filler(91), Filler(140), Filler(141),
    <<"I've", " ">> \o Filler(89),
    <<"\t">> \o Filler(141) \o <<" ", "I">> }
GenMessages == {MsgHobbies, MsgSkills, MsgGannaca}
GenEmbeddings == QueryEmbeddings \cup {<<3, 4>>}

InitGen ==
  /\ build \in Builds
  /\ KB = KBTies /\ INTERVIEW = BankMissing
  /\ conversations = <<>>
  /\ rrMap = <<>>
  /\ req = [r \in Slots |-> Idle]
  /\ received = 0
  /\ unit = NoUnit

NextGen ==
  \/ \E message \in GenMessages, debug \in BOOLEAN :
       received < GenRequests /\ Receive(1, TRUE, message, "", debug)
  \/ \E content \in LangContents : LangReturn(1, TRUE, content)
  \/ \E qemb \in GenEmbeddings : EmbedReturn(1, qemb)
  \/ \E content \in ReplyContents : GenReturn(1, content)

SpecGen == InitGen /\ [][NextGen]_vars

(* SpecUnit: normalize, detectTag, guessLang and detectLanguage called on   *)
(* their own, once, on every text of up to MaxLen atoms of a small         *)
(* alphabet.                                                               *)
SeqsUpTo(A, n) == UNION {[1..k -> A] : k \in 0..n}
\* an upper-case word, one with a diacritic, one with the sharp s, the
\* double-struck capital N (the character U+2115, written by its code
\* point), whitespace and punctuation
NormAtoms == {"How", "Stärken", "heißt", "U+2115", " ", "\t", "?"}
\* cues of two companies and three sections, and words that are none
TagAtoms ==
  {"gannaca", "Cancom", "Skills", "tools", "early", "experience", "2008",
   "hobbies", " "}
LangAtoms == {"Stärken", "für", "Vârsta", "starken", "ce", "hobbies", " "}
\* words of three boundary rules (one of them German, one with a capital),
\* a word of no rule, whitespace and punctuation
BoundaryAtoms == {"salary", "Contact", "kids", "alter", "hobbies", " ", "?"}
\* what the classification call can give as message content
LangOutputs ==
  {<<>>, NullContent, <<"en">>, <<"de">>, <<"ro">>, <<"DE">>,
   <<" ", "RO", "\t">>, <<"English">>, <<"de", ".">>, <<"fr">>}

CallNormalize(text) ==
  /\ unit = NoUnit
  /\ unit' = [NoUnit EXCEPT !.fn = "normalize", !.text = text,
                            !.result = normalize(text)]
  /\ UNCHANGED <<build, KB, INTERVIEW, conversations, rrMap, req, received>>

\* detectTag(qLower) with qLower = message.toLowerCase()
CallDetectTag(text) ==
  /\ unit = NoUnit
  /\ unit' = [NoUnit EXCEPT !.fn = "detectTag", !.text = toLowerCase(text),
                            !.code = detectTag(toLowerCase(text))]
  /\ UNCHANGED <<build, KB, INTERVIEW, conversations, rrMap, req, received>>

CallGuessLang(text) ==
  /\ build # "v3" /\ unit = NoUnit
  /\ unit' = [NoUnit EXCEPT !.fn = "guessLang", !.text = text,
                            !.code = guessLang(text)]
  /\ UNCHANGED <<build, KB, INTERVIEW, conversations, rrMap, req, received>>

\* the language interviewAnswer(question) looks its triggers up in
CallInterviewLang(text) ==
  /\ build # "v3" /\ unit = NoUnit
  /\ unit' = [NoUnit EXCEPT
                !.fn = "interviewAnswer", !.text = text,
                !.code = IF build = "v1" THEN interviewLangV1(text)
                         ELSE interviewLangV2(text)]
  /\ UNCHANGED <<build, KB, INTERVIEW, conversations, rrMap, req, received>>

\* smartBoundaryAndInterview(qLower) of the first revision,
\* smartBoundaryAndInterview(message) of the second: the topic of the rule
\* that answers, "" when the function returns null
CallBoundary(text) ==
  /\ build # "v3" /\ unit = NoUnit
  /\ LET rule == IF build = "v1"
                 THEN smartBoundaryAndInterviewV1(toLowerCase(text))
                 ELSE smartBoundaryAndInterviewV2(text)
     IN unit' = [NoUnit EXCEPT
                   !.fn = "smartBoundaryAndInterview", !.text = text,
                   !.code = IF rule = 0 THEN "" ELSE BoundaryRulesV2[rule].topic]
  /\ UNCHANGED <<build, KB, INTERVIEW, conversations, rrMap, req, received>>

\* await detectLanguage(text): the call fails (ok = FALSE) or gives content
CallDetectLanguage(text, ok, content) ==
  /\ build = "v3" /\ unit = NoUnit
  /\ unit' = [NoUnit EXCEPT !.fn = "detectLanguage", !.text = text, !.ok = ok,
                            !.content = IF ok THEN content ELSE <<>>,
                            !.code = detectLanguage(ok, content)]
  /\ UNCHANGED <<build, KB, INTERVIEW, conversations, rrMap, req, received>>

InitUnit ==
  /\ build \in Builds
  /\ KB = KBMissing /\ INTERVIEW = BankMissing
  /\ conversations = <<>>
  /\ rrMap = <<>>
  /\ req = [r \in Slots |-> Idle]
  /\ received = 0
  /\ unit = NoUnit

NextUnit ==
  \/ \E text \in SeqsUpTo(NormAtoms, MaxLen) : CallNormalize(text)
  \/ \E text \in SeqsUpTo(TagAtoms, MaxLen) : CallDetectTag(text)
  \/ \E text \in SeqsUpTo(LangAtoms, MaxLen) : CallGuessLang(text)
  \/ \E text \in SeqsUpTo(LangAtoms, MaxLen) : CallInterviewLang(text)
  \/ \E text \in SeqsUpTo(BoundaryAtoms, MaxLen) : CallBoundary(text)
  \/ \E text \in {MsgWhy, MsgStaerken}, ok \in BOOLEAN,
        content \in LangOutputs :
       CallDetectLanguage(text, ok, content)

SpecUnit == InitUnit /\ [][NextUnit]_vars

(* ----------------------------- properties ----------------------------- *)
\* the request in slot r has been received
Started(r) == req[r].pc # "idle"
\* its message is missing or holds nothing but whitespace
Blank(r) ==
  ~req[r].hasMessage \/ \A i \in DOMAIN req[r].message : req[r].message[i] \in WS
\* the handler has ended and has sent resp, and nothing else
Sent(r, resp) == req[r].pc = "done" /\ req[r].responses = <<resp>>
IsPrefix(s, t) == Len(s) <= Len(t) /\ s = SubSeq(t, 1, Len(s))
Last(s) == s[Len(s)]

\* the pattern rules of part_002 that match the normalized text of a message
RulesMatching ==
  [m \in Messages |->
     {i \in DOMAIN BoundaryRulesV2 :
        test(BoundaryRulesV2[i].patterns, normalize(m))}]
\* the first of them, in listed order
FirstRule(m) ==
  CHOOSE i \in RulesMatching[m] : \A j \in RulesMatching[m] : i <= j

\* C1: whenever a request with a detected tag T reaches the generation call,
\* every chunk of its top-K list, and so every context block of its prompt,
\* has tag T.
StrictScope ==
  \A r \in Slots :
    ("gen" \in Range(req[r].calls) /\ req[r].desiredTag # NoTag)
      => /\ \A i \in DOMAIN req[r].topK : req[r].topK[i].tag = req[r].desiredTag
         /\ \A i \in DOMAIN req[r].contextBlocks :
              req[r].contextBlocks[i].tag = req[r].desiredTag

\* C1, its case: a tagged request is at the generation call with K chunks of
\* its tag, and a chunk of another tag scores higher than one of them
ScopedTopKBeatsOtherTag ==
  \E r \in Slots, q \in QueryEmbeddings :
    /\ "gen" \in Range(req[r].calls)
    /\ req[r].desiredTag = "gannaca"
    /\ req[r].topK = topK(filterTag(allScored(q), "gannaca"))
    /\ Len(req[r].contextBlocks) = TopK
    /\ \E k \in DOMAIN KB :
         /\ KB[k].tag # "gannaca"
         /\ allScored(q)[k].score > req[r].topK[TopK].score

\* the detected tag of the request has no chunk in the knowledge base
TagWithoutChunks(r) ==
  /\ Started(r)
  /\ req[r].desiredTag # NoTag
  /\ \A k \in DOMAIN KB : KB[k].tag # req[r].desiredTag
\* the fixed out-of-scope response, with used_chunks: [] in debug mode
OutOfScope(r) ==
  IF req[r].debug
  THEN [status |-> 200, answer |-> NotInScope, error |-> "", debug |-> TRUE,
        tag |-> "", used_chunks |-> <<>>]
  ELSE [status |-> 200, answer |-> NotInScope, error |-> "", debug |-> FALSE,
        tag |-> "", used_chunks |-> <<>>]

\* C2 as stated: every request whose detected tag has no chunk in the
\* knowledge base is answered with exactly the fixed out-of-scope message, and
\* generation is never called for it.
OutOfScopeAlways ==
  \A r \in Slots :
    TagWithoutChunks(r)
      => /\ "gen" \notin Range(req[r].calls)
         /\ req[r].pc = "done" => Sent(r, OutOfScope(r))

\* C2, amended: for a request whose detected tag has no chunk, generation is
\* never called and nothing is ranked (no fallback to the whole corpus); and
\* once its embedding call has returned and the clarify step of the session
\* revision has not answered, its response is exactly the out-of-scope message.
OutOfScopeAtScopeStep ==
  \A r \in Slots :
    TagWithoutChunks(r)
      => /\ "gen" \notin Range(req[r].calls)
         /\ "rank" \notin Range(req[r].stages)
         /\ req[r].topK = <<>> /\ req[r].contextBlocks = <<>>
         /\ ("score" \in Range(req[r].stages) /\ "clarify" \notin Range(req[r].stages))
              => /\ Sent(r, OutOfScope(r))
                 /\ Last(req[r].stages) = "scope"

\* C2, its case: a debug request for a tag without chunks, over a non-empty
\* knowledge base, has been answered by the scope step
OutOfScopeAnswered ==
  \E r \in Slots :
    /\ TagWithoutChunks(r) /\ KB # <<>> /\ req[r].debug
    /\ "scope" \in Range(req[r].stages)
    /\ req[r].responses[1].answer = NotInScope

\* C3 as stated: a non-blank request whose normalized text matches a rule of
\* the boundary matcher never has the embedding service, the ranker or the
\* generation service invoked for it.
BoundaryShortCircuit ==
  \A r \in Slots :
    (Started(r) /\ ~Blank(r) /\ RulesMatching[req[r].message] # {})
      => /\ "embed" \notin Range(req[r].calls)
         /\ "gen" \notin Range(req[r].calls)
         /\ "score" \notin Range(req[r].stages)
         /\ "rank" \notin Range(req[r].stages)

\* C4 as stated, for the revision of part_002: a non-blank request whose
\* normalized text matches a rule receives as its answer a deflection from the
\* pool of the first matching rule.
BoundaryAnswerAlways ==
  build = "v2" =>
    \A r \in Slots :
      (Started(r) /\ ~Blank(r) /\ RulesMatching[req[r].message] # {})
        => \E a \in Range(BoundaryRulesV2[FirstRule(req[r].message)].opts) :
             Sent(r, Json(a))

\* C4, amended: in the revision of part_002 the matcher returns null exactly
\* when no rule pattern matches the normalized text; otherwise a non-blank
\* request received while the knowledge base is non-empty gets as its answer a
\* deflection from the pool of the first matching rule in listed order,
\* without any later step; and with no match it goes on to the canned answers.
BoundaryAnswerWhenLoaded ==
  build = "v2" =>
    \A r \in Slots :
      (Started(r) /\ ~Blank(r))
        => LET m == req[r].message IN
           /\ overrideRule(m) = 0 <=> RulesMatching[m] = {}
           /\ (KB # <<>> /\ RulesMatching[m] # {})
                => /\ \E a \in Range(BoundaryRulesV2[FirstRule(m)].opts) :
                        Sent(r, Json(a))
                   /\ Last(req[r].stages) = "boundary"
                   /\ req[r].calls = <<>>
           /\ (KB # <<>> /\ RulesMatching[m] = {})
                => "canned" \in Range(req[r].stages)

\* C4, its case: a request that matches two rules has been answered from the
\* pool of the earlier one
FirstOfTwoRulesAnswered ==
  \E r \in Slots :
    /\ build = "v2" /\ Started(r) /\ ~Blank(r) /\ KB # <<>>
    /\ Cardinality(RulesMatching[req[r].message]) >= 2
    /\ BoundaryRulesV2[FirstRule(req[r].message)].topic = "salary"
    /\ req[r].pc = "done"
    /\ req[r].responses[1].answer \in Range(SalaryOpts)

\* the language the canned-answer step works with
CannedLang(r) ==
  IF build = "v3" THEN req[r].detectedLang
  ELSE IF build = "v2" THEN guessLang(normalize(req[r].message))
  ELSE guessLang(toLowerCase(req[r].message))
\* a trigger phrase of the cluster for the language is a substring of the
\* normalized query
TriggerMatches(c, lang, q) ==
  \E i \in DOMAIN OrEmpty(c[trigKey(lang)]) :
    /\ normalize(OrEmpty(c[trigKey(lang)])[i]) # <<>>
    /\ includes(q, normalize(OrEmpty(c[trigKey(lang)])[i]))
\* the pool chosen for the cluster: c[ansKey] || c.answers_en || []
ChosenPool(c, lang) ==
  IF c[ansKey(lang)].present THEN c[ansKey(lang)].items ELSE OrEmpty(c.answers_en)
\* the clusters the bank matches the request with
CannedHits(r) ==
  {i \in DOMAIN INTERVIEW :
     /\ TriggerMatches(INTERVIEW[i], CannedLang(r), normalize(req[r].message))
     /\ ChosenPool(INTERVIEW[i], CannedLang(r)) # <<>>}
\* the clusters with a trigger, of the language or (part_002) English, in it
TriggerHits(r) ==
  {i \in DOMAIN INTERVIEW :
     \/ TriggerMatches(INTERVIEW[i], CannedLang(r), normalize(req[r].message))
     \/ build = "v2" /\ TriggerMatches(INTERVIEW[i], "en", normalize(req[r].message))}
\* every entry of every answer pool of the cluster
PoolEntries(c) ==
  Range(OrEmpty(c.answers_en)) \cup Range(OrEmpty(c.answers_de))
    \cup Range(OrEmpty(c.answers_ro))

\* C5: in part_002 and the session revision, when the canned-answer step
\* matches a query (a trigger of a cluster for the detected language is in the
\* normalized query and the chosen pool is non-empty), the answer returned is
\* an entry of a pool of that cluster and neither the embedding nor the
\* generation service is called; when no trigger matches, the step returns
\* null and the request goes on to the embedding call of retrieval.
CannedShortCircuit ==
  build \in {"v2", "v3"} =>
    \A r \in Slots :
      "canned" \in Range(req[r].stages)
        => /\ CannedHits(r) # {}
                => /\ \E i \in CannedHits(r) :
                        /\ \A j \in CannedHits(r) : i <= j
                        /\ \E a \in PoolEntries(INTERVIEW[i]) : Sent(r, Json(a))
                   /\ "embed" \notin Range(req[r].calls)
                   /\ "gen" \notin Range(req[r].calls)
           /\ TriggerHits(r) = {} => "embed" \in Range(req[r].calls)

\* C5, its case: the session revision has answered an English question from
\* the bank, with a trigger that is a proper part of the query
CannedAnswerSent ==
  \E r \in Slots :
    /\ build = "v3" /\ req[r].message = MsgWhy /\ req[r].detectedLang = "en"
    /\ CannedHits(r) # {}
    /\ req[r].pc = "done"
    /\ req[r].responses[1].answer \in Range(OrEmpty(INTERVIEW[1].answers_en))
    /\ req[r].calls = <<"lang">>

\* C6 as stated: for the first cluster whose trigger of the detected language
\* matches, the answer comes from the pool of that language when it is
\* non-empty, and from the English pool when the pool of that language is
\* absent or an empty list.
EnglishPoolFallback ==
  \A r \in Slots :
    "canned" \in Range(req[r].stages)
      => LET lang == CannedLang(r)
             hits == {i \in DOMAIN INTERVIEW :
                        TriggerMatches(INTERVIEW[i], lang, normalize(req[r].message))}
         IN \A i \in hits :
              (\A j \in hits : i <= j)
                => LET own == OrEmpty(INTERVIEW[i][ansKey(lang)])
                       expected == IF own # <<>> THEN own
                                   ELSE OrEmpty(INTERVIEW[i].answers_en)
                   IN expected # <<>>
                        => \E a \in Range(expected) : Sent(r, Json(a))

\* C7 as stated: a request suspends at most twice, first on the embedding
\* call and then on the generation call.
TwoSuspensions ==
  \A r \in Slots : IsPrefix(req[r].calls, <<"embed", "gen">>)

\* C7, amended: a request suspends at most three times, in this order: on the
\* language call (session revision only), on the embedding call, on the
\* generation call; no call is issued more than once, and a request waits
\* only for the call it issued last.
SuspensionOrder ==
  \A r \in Slots :
    /\ IF build = "v3" THEN IsPrefix(req[r].calls, <<"lang", "embed", "gen">>)
       ELSE IsPrefix(req[r].calls, <<"embed", "gen">>)
    /\ req[r].pc = "awaitLang" => Last(req[r].calls) = "lang"
    /\ req[r].pc = "awaitEmbed" => Last(req[r].calls) = "embed"
    /\ req[r].pc = "awaitGen" => Last(req[r].calls) = "gen"
    /\ req[r].pc \in {"idle", "done", "awaitLang", "awaitEmbed", "awaitGen"}

\* C7, its case: a request of the session revision has been answered after
\* all three calls
ThreeCallsAnswered ==
  \E r \in Slots :
    /\ build = "v3" /\ req[r].pc = "done"
    /\ req[r].calls = <<"lang", "embed", "gen">>
    /\ req[r].responses[1].status = 200

\* C8: when the embedding or the generation call fails, the request ends at
\* once with a failure response: status 429 and error quota_exceeded exactly
\* when the status of the upstream error is 429, otherwise status 500 and
\* error chat_failed; the failed call is not issued again.
FailureMapping ==
  \A r \in Slots :
    req[r].err # NoErr
      => LET upstream == IF req[r].err.status # 0 THEN req[r].err.status
                         ELSE req[r].err.response_status
         IN /\ req[r].pc = "done"
            /\ Len(req[r].responses) = 1
            /\ req[r].responses[1].answer = <<>>
            /\ upstream = 429
                 => /\ req[r].responses[1].status = 429
                    /\ req[r].responses[1].error = "quota_exceeded"
            /\ upstream # 429
                 => /\ req[r].responses[1].status = 500
                    /\ req[r].responses[1].error = "chat_failed"
            /\ Last(req[r].calls) \in {"embed", "gen"}
            /\ Cardinality(Range(req[r].calls)) = Len(req[r].calls)

\* C8, its case: the generation call has failed with the 429 in
\* err.response.status, and the response is the quota failure
QuotaFailureSent ==
  \E r \in Slots :
    /\ req[r].err = [status |-> 0, response_status |-> 429]
    /\ Last(req[r].calls) = "gen"
    /\ req[r].responses[1].status = 429

\* a blank request is answered with the prompt to ask a question
BlankAnswered ==
  \A r \in Slots :
    (Started(r) /\ Blank(r))
      => /\ Sent(r, Json(PleaseAsk))
         /\ req[r].responses[1].status = 200
         /\ req[r].calls = <<>>
         /\ req[r].stages = <<"guards">>

\* C9: a request whose message is missing or only whitespace gets the answer
\* 'Please ask a question.' with status 200 and no external call, and
\* receiving it changes neither the history map nor the style counters.
BlankRequest ==
  /\ []BlankAnswered
  /\ [][\A r \in Slots :
          (received' # received /\ req'[r] # Idle /\ Blank(r)'
             /\ \A o \in Slots \ {r} : req'[o] = req[o])
            => conversations' = conversations /\ rrMap' = rrMap]_vars

\* C9, its case: a whitespace-only request has been answered while a session
\* holds a history and a style counter is set
BlankAfterHistory ==
  \E r \in Slots :
    /\ Started(r) /\ req[r].hasMessage /\ req[r].message = MsgSpaces
    /\ req[r].pc = "done"
    /\ \E sid \in DOMAIN conversations : conversations[sid] # <<>>
    /\ rrMap # <<>>

\* C10: while the knowledge base is absent or empty, every non-blank request
\* gets the fixed no-context answer with status 200, and no embedding call, no
\* generation call and no step of retrieval happens for it.
NoContextAnswer ==
  \A r \in Slots :
    (Started(r) /\ ~Blank(r) /\ KB = <<>>)
      => /\ Sent(r, Json(NoContext))
         /\ req[r].responses[1].status = 200
         /\ req[r].calls = <<>>
         /\ req[r].stages = <<"guards">>
         /\ req[r].topK = <<>>

\* C10, its case: a second request, one a boundary rule matches, has been
\* answered while the knowledge base is empty
NoContextSent ==
  \E r \in Slots :
    /\ KB = <<>> /\ received = MaxRequests
    /\ req[r].message = MsgAge /\ req[r].pc = "done"
    /\ req[r].responses[1].answer = NoContext


\* the entries of a session, <<>> before the session exists
HistoryOf(conv, sid) == IF sid \in DOMAIN conv THEN conv[sid] ELSE <<>>
\* the last n entries of a sequence, all of them when it has fewer
MostRecent(s, n) ==
  [i \in 1..(IF Len(s) < n THEN Len(s) ELSE n) |->
     s[i + (IF Len(s) < n THEN 0 ELSE Len(s) - n)]]
\* the request in slot r completes a turn of the session in this step
CompletesTurn(r, sid) ==
  /\ req[r].pc # "done" /\ req'[r].pc = "done"
  /\ req[r].sid = sid
  /\ Last(req'[r].stages) = "append"

\* C11: a session's history never holds more than 20 entries; a step that
\* completes a turn appends the user message and then the assistant answer
\* and keeps the 20 most recent entries in their order, dropping the oldest;
\* no other step changes a history.
HistoryBounded ==
  /\ [](\A sid \in DOMAIN conversations : Len(conversations[sid]) <= 20)
  /\ [][\A sid \in DOMAIN conversations' :
          LET old == HistoryOf(conversations, sid)
              new == conversations'[sid]
          IN IF \E r \in Slots : CompletesTurn(r, sid)
             THEN \E r \in Slots :
                    /\ CompletesTurn(r, sid)
                    /\ new = MostRecent(
                               old \o << [role |-> "user", content |-> req[r].message],
                                          [role |-> "assistant",
                                           content |-> req'[r].responses[1].answer] >>,
                               20)
             ELSE new = old]_vars

\* C11, its case: the eleventh turn of a session has been completed, so two
\* entries were dropped, and the history starts with the second question
HistoryTruncated ==
  \E sid \in DOMAIN conversations :
    /\ received >= 11 /\ req[1].pc = "done"
    /\ Len(conversations[sid]) = 20
    /\ conversations[sid][1].role = "user"
    /\ conversations[sid][20] =
         [role |-> "assistant", content |-> req[1].responses[1].answer]


\* the requests that have completed a turn of the session
Completed(sid) ==
  {r \in Slots : req[r].pc = "done" /\ req[r].sid = sid
                   /\ "append" \in Range(req[r].stages)}

\* C12: under any interleaving of concurrent requests of one session no
\* history update is lost: the history is a sequence of pairs, one for each
\* completed turn, each pair holding the user message and then the assistant
\* answer of one request, with no entry of another request between them.
NoLostUpdate ==
  \A sid \in DOMAIN conversations :
    LET h == conversations[sid]
        done == Completed(sid)
    IN /\ Len(h) = 2 * Cardinality(done)
       /\ \E place \in [done -> 1..Cardinality(done)] :
            /\ \A r1, r2 \in done : place[r1] = place[r2] => r1 = r2
            /\ \A r \in done :
                 /\ h[2 * place[r] - 1] =
                      [role |-> "user", content |-> req[r].message]
                 /\ h[2 * place[r]] =
                      [role |-> "assistant", content |-> req[r].responses[1].answer]

\* C12, its case: a request built its prompt while the history was empty,
\* another request of the session completed its turn in the meantime, and
\* the first one has then appended its own turn behind it
OverlappingTurnsAppended ==
  \E r1, r2 \in Slots :
    /\ r1 # r2 /\ {r1, r2} \subseteq Completed("s1")
    /\ "gen" \in Range(req[r1].calls) /\ req[r1].history = <<>>
    /\ req[r1].message # req[r2].message
    /\ Len(conversations["s1"]) = 4
    /\ conversations["s1"][1].content = req[r2].message
    /\ conversations["s1"][3].content = req[r1].message


\* the request in slot r has called the style selector
CalledSelector(r) == "rank" \in Range(req[r].stages)
\* the question key of the request: the question trimmed and lower-cased
KeyOf(r) == trim(toLowerCase(req[r].message))
\* the number of calls of the selector with the key of r, up to the call of r
CallNumber(r) ==
  Cardinality({j \in 1..r : CalledSelector(j) /\ KeyOf(j) = KeyOf(r)})
\* the ordered style pool of the key
StylePool(r) ==
  IF build = "v1"
  THEN IF req[r].desiredTag \in {"gannaca", "ingram", "cancom", "covestro"}
       THEN <<"bullets3", "impactBullets">>
       ELSE <<"bullets3", "impactBullets", "twoSentences", "shortPara">>
  ELSE <<"twoSentences", "shortPara">>

\* C13: the k-th call of the style selector with a key returns
\* pool[(k-1) mod P] of the key's pool of size P, whatever calls with other
\* keys come in between; so call P+1 returns what call 1 returned, and P
\* consecutive calls with the key return every directive of the pool once.
StyleRotation ==
  \A r \in Slots :
    CalledSelector(r)
      => LET pool == StylePool(r)
             P == Len(pool)
         IN /\ req[r].variant = pool[((CallNumber(r) - 1) % P) + 1]
            /\ \A j \in 1..r :
                 (CalledSelector(j) /\ KeyOf(j) = KeyOf(r))
                   => /\ CallNumber(r) = CallNumber(j) + P
                           => req[r].variant = req[j].variant
                      /\ (j # r /\ CallNumber(r) - CallNumber(j) < P)
                           => req[r].variant # req[j].variant

\* C13, its case: in the first revision a company question was asked first,
\* third and fifth, with questions of other keys in between, and its third
\* call got the directive of its first call, its second call the other one
StyleCycleClosed ==
  /\ build = "v1"
  /\ \A r \in {1, 3, 5} : req[r].message = MsgGannaca /\ CalledSelector(r)
  /\ \A r \in {2, 4} : CalledSelector(r) /\ KeyOf(r) # KeyOf(1)
  /\ req[5].variant = req[1].variant
  /\ req[3].variant # req[1].variant

\* two requests of one session, one after the other in that session, with
\* the same question, both sent to the generator
ConsecutiveSame(i, j) ==
  /\ i < j
  /\ "gen" \in Range(req[i].calls) /\ "gen" \in Range(req[j].calls)
  /\ req[i].sid = req[j].sid
  /\ req[i].message = req[j].message
  /\ \A k \in Slots : (i < k /\ k < j) => req[k].sid # req[i].sid

\* C14 as stated, for questions without a section tag in the session
\* revision: two consecutive identical questions of a session that both reach
\* the generation call are sent to the generator with different style
\* directives, whatever other sessions ask in between.
StyleDiffers ==
  build = "v3" =>
    \A i, j \in Slots :
      (ConsecutiveSame(i, j) /\ req[i].desiredTag \notin Range(SECTION_TAGS))
        => req[i].styleHint # req[j].styleHint

\* the request has had its generated reply post-processed and sent
Generated(r) == req[r].pc = "done" /\ "finalize" \in Range(req[r].stages)
\* the answer the request has sent
AnswerOf(r) == req[r].responses[1].answer
\* the words of a text: its maximal runs of atoms that are no whitespace
WordCount(text) ==
  Cardinality({i \in DOMAIN text :
                 text[i] \notin WS /\ (i = 1 \/ text[i - 1] \in WS)})
\* the limit of a generated answer: 140 words for a section tag, else 90
CapOf(r) == IF req[r].desiredTag \in Range(SECTION_TAGS) THEN 140 ELSE 90

\* C15: a generated answer never has more words than its limit (90, or 140
\* for a section-tagged question); a reply that is within the limit before
\* the cap is sent as it is, without its leading and trailing whitespace,
\* and a longer one is cut to exactly the limit.
WordCap ==
  \A r \in Slots :
    Generated(r) =>
      LET text == beforeCap(req[r].content) IN
      /\ WordCount(AnswerOf(r)) <= CapOf(r)
      /\ WordCount(text) <= CapOf(r) => AnswerOf(r) = trim(text)
      /\ WordCount(text) > CapOf(r) => WordCount(AnswerOf(r)) = CapOf(r)

\* C15, its case: a reply of 141 words to a section-tagged question was
\* sent with 140 words
CapReached ==
  \E r \in Slots :
    /\ Generated(r)
    /\ req[r].desiredTag = "skills"
    /\ WordCount(beforeCap(req[r].content)) = 141
    /\ WordCount(AnswerOf(r)) = 140

\* the atoms in which /\bI\b/i, /\bmy\b/i or /\bme\b/i matches
FirstPersonAtoms == {"I", "i", "My", "my", "Me", "me", "I've", "i've"}
FirstPerson(text) == \E i \in DOMAIN text : text[i] \in FirstPersonAtoms

\* C16 as stated: every generated answer that is sent has no standalone
\* 'I', 'my' or 'me' left in it and is within its word limit.
BothPasses ==
  \A r \in Slots :
    Generated(r) =>
      /\ ~FirstPerson(AnswerOf(r))
      /\ WordCount(AnswerOf(r)) <= CapOf(r)

\* C16 in the revisions that call enforceThirdPerson: there the sent answer
\* has no first-person form and is within its limit.
BothPassesBeforeSessions ==
  build # "v3" => BothPasses

\* C16, its case: the generator's reply had a first-person form and the
\* request has sent its answer
FirstPersonReplySent ==
  \E r \in Slots : Generated(r) /\ FirstPerson(req[r].content)

\* the request has ranked its pool
Ranked(r) == "rank" \in Range(req[r].stages)
\* the places in the corpus of the chunks in the pool of the request
PoolPlaces(r) ==
  {k \in DOMAIN KB : req[r].desiredTag = NoTag \/ KB[k].tag = req[r].desiredTag}
\* the score of the chunk at place k for the request
ScoreAt(r, k) == cosineSim(req[r].qemb, KB[k].embedding)
\* the place in the corpus of the i-th chunk the ranker returned
PlaceOf(r, i) == CHOOSE k \in DOMAIN KB : KB[k].id = req[r].topK[i].id
Min(a, b) == IF a < b THEN a ELSE b

\* C18: the ranker returns min(3, size of the pool) different chunks of the
\* pool with their scores, highest score first; no chunk left out has a
\* higher score than a returned one; of two chunks with the same score the
\* one earlier in the corpus comes first, and is the one kept at the cut.
RankOrder ==
  \A r \in Slots :
    Ranked(r) =>
      LET top == req[r].topK
          returned == {PlaceOf(r, i) : i \in DOMAIN top}
          omitted == PoolPlaces(r) \ returned
      IN /\ Len(top) = Min(3, Cardinality(PoolPlaces(r)))
         /\ \A i \in DOMAIN top :
              /\ PlaceOf(r, i) \in PoolPlaces(r)
              /\ top[i].score = ScoreAt(r, PlaceOf(r, i))
         /\ \A i, j \in DOMAIN top :
              i < j => /\ top[i].score >= top[j].score
                       /\ PlaceOf(r, i) # PlaceOf(r, j)
                       /\ top[i].score = top[j].score
                            => PlaceOf(r, i) < PlaceOf(r, j)
         /\ \A k \in omitted : \A i \in DOMAIN top :
              /\ ScoreAt(r, k) <= top[i].score
              /\ ScoreAt(r, k) = top[i].score => PlaceOf(r, i) < k

\* C18, its case: the pool had more than three chunks, two of the returned
\* ones had the same score, and a chunk left out had the score of the last
\* returned one
TieAtTheCut ==
  \E r \in Slots :
    /\ Ranked(r)
    /\ Cardinality(PoolPlaces(r)) > 3
    /\ req[r].topK[1].score = req[r].topK[2].score
    /\ \E k \in PoolPlaces(r) :
         /\ \A i \in DOMAIN req[r].topK : PlaceOf(r, i) # k
         /\ ScoreAt(r, k) = req[r].topK[3].score

\* the function has been called on its own
Called(fn) == unit.fn = fn
\* the tags of the rules that match the text the detector was given
MatchingTags == {TagRules[i].tag : i \in {j \in DOMAIN TagRules : tagRuleMatches(j, unit.text)}}
\* the text holds the name of a company as a word
CompanyCue == \E k \in DOMAIN unit.text : unit.text[k] \in Range(COMPANY_TAGS)

\* C17: the tag detector returns one tag of the closed set or null; a text
\* with a company cue gets a company tag, whatever section cue it also has;
\* the tag returned is that of the first rule in rule order that matches;
\* and null is returned exactly when no rule matches.
TagDetection ==
  Called("detectTag") =>
    /\ unit.code \in Range(COMPANY_TAGS) \cup Range(SECTION_TAGS) \cup {NoTag}
    /\ CompanyCue => unit.code \in Range(COMPANY_TAGS)
    /\ \A i \in DOMAIN TagRules :
         (/\ tagRuleMatches(i, unit.text)
          /\ \A j \in 1..(i - 1) : ~tagRuleMatches(j, unit.text))
           => unit.code = TagRules[i].tag
    /\ unit.code = NoTag <=> MatchingTags = {}

\* C17, its case: the detector was called on a text with a section cue
\* before a company cue, written with a capital, and returned the company
CompanyBeatsSection ==
  /\ Called("detectTag")
  /\ unit.text = <<"skills", " ", "cancom">>
  /\ unit.code = "cancom"
  /\ MatchingTags = {"skills", "cancom"}

\* the code a message content spells: the content is one of en, de, ro in
\* any letter case with nothing but whitespace around it; "" if it is not
SpelledCode(content) ==
  LET at == {k \in DOMAIN content :
               /\ LowerAtom(content[k]) \in Langs
               /\ \A j \in DOMAIN content \ {k} : content[j] \in WS}
  IN IF content = NullContent \/ at = {} THEN ""
     ELSE LowerAtom(content[CHOOSE k \in at : TRUE])

\* C19 as stated: a call of the classifier returns one of en, de, ro, and
\* returns en whenever the external call fails or its output is not one of
\* the three codes.
ClassifierDefaultsLiteral ==
  /\ Called("guessLang") => unit.code \in Langs
  /\ Called("detectLanguage") =>
       /\ unit.code \in Langs
       /\ (~unit.ok \/ unit.content \notin {<<"en">>, <<"de">>, <<"ro">>})
            => unit.code = "en"

\* C19: a call of the classifier returns one of en, de, ro; it returns en
\* when the external call fails and when its output, trimmed and
\* lower-cased, is not one of the three codes, and that code when it is.
ClassifierDefaults ==
  /\ Called("guessLang") => unit.code \in Langs
  /\ Called("detectLanguage") =>
       /\ unit.code \in Langs
       /\ (~unit.ok \/ SpelledCode(unit.content) = "") => unit.code = "en"
       /\ (unit.ok /\ SpelledCode(unit.content) # "")
            => unit.code = SpelledCode(unit.content)

\* C19, its case: the external call gave ' RO' followed by a tab, and the
\* classifier returned ro
PaddedCodeAccepted ==
  /\ Called("detectLanguage")
  /\ unit.ok /\ unit.content = <<" ", "RO", "\t">>
  /\ unit.code = "ro"

\* the atoms with a capital that has a lower-case form, the atom that is a
\* capital without one, and the atoms with a letter that carries a mark
CasedCapitalAtoms ==
  {"How", "Gannaca", "Warum", "Rolle", "Ihre", "Stärken", "Starken", "Why",
   "Vârsta", "Varsta", "Heißt", "I", "I've", "My", "Me", "She", "Cristina",
   "Merisoiu", "DE", "RO", "English", "Skills", "Cancom"}
UncasedCapitalAtoms == {"U+2115"}
MarkAtoms == {"Stärken", "stärken", "Vârsta", "vârsta"}
\* no two whitespace atoms in a row, none at either end
SingleSpaced(t) ==
  /\ \A i \in DOMAIN t : t[i] \in WS => 1 < i /\ i < Len(t) /\ t[i + 1] \notin WS

\* C20 as stated: normalize of a normalized text is that text, and a
\* normalized text has no upper-case letter, no combining mark, no two
\* whitespace characters in a row and no whitespace at either end.
NormalizeClosedAllCapitals ==
  Called("normalize") =>
    /\ normalize(unit.result) = unit.result
    /\ \A i \in DOMAIN unit.result :
         unit.result[i] \notin CasedCapitalAtoms \cup UncasedCapitalAtoms
                                 \cup MarkAtoms
    /\ SingleSpaced(unit.result)

\* C20: normalize of a normalized text is that text, and a normalized text
\* has no upper-case letter that has a lower-case form, no combining mark,
\* no two whitespace characters in a row and no whitespace at either end.
NormalizeClosed ==
  Called("normalize") =>
    /\ normalize(unit.result) = unit.result
    /\ \A i \in DOMAIN unit.result :
         unit.result[i] \notin CasedCapitalAtoms \cup MarkAtoms
    /\ SingleSpaced(unit.result)

\* C20, its case: normalize was called on a text with a tab before a word
\* that has a capital and a diacritic, and a space after it
NormalizeChanged ==
  /\ Called("normalize")
  /\ unit.text = <<"\t", "Stärken", " ">>
  /\ unit.result = <<"starken">>

\* the text the deployed matcher tests its patterns on, and its rules
BoundaryText ==
  IF build = "v1" THEN trim(replacePunct(toLowerCase(unit.text)))
  ELSE normalize(unit.text)
BoundaryRules == IF build = "v1" THEN BoundaryRulesV1 ELSE BoundaryRulesV2
\* the topics of the rules with a pattern that matches that text
BoundaryHits ==
  {BoundaryRules[i].topic :
     i \in {j \in DOMAIN BoundaryRules :
              test(BoundaryRules[j].patterns, BoundaryText)}}

\* C21 as stated: the patterns of at most one boundary rule match the
\* normalized text of a query.
RulesExclusive ==
  Called("smartBoundaryAndInterview") => Cardinality(BoundaryHits) <= 1

\* C21, what holds: the rule that answers is one of those that match, and
\* there is an answer exactly when some rule matches.
AnsweringRuleMatches ==
  Called("smartBoundaryAndInterview") =>
    /\ unit.code # "" => unit.code \in BoundaryHits
    /\ unit.code = "" <=> BoundaryHits = {}

\* C21, its case: a query with the words of two rules was answered by the
\* rule listed first
TwoRulesMatch ==
  /\ Called("smartBoundaryAndInterview")
  /\ unit.text = <<"Contact", " ", "salary">>
  /\ BoundaryHits = {"salary", "contact"}
  /\ unit.code = "salary"

\* the ids of a list of chunks, in its order
Ids(chunks) == [i \in DOMAIN chunks |-> chunks[i].id]
\* the request has ranked the pool of a tag
RankedWithTag(r) == Ranked(r) /\ req[r].desiredTag # NoTag
\* the whole corpus ranked for the question of the request, without a tag
Unrestricted(r) == sortByScore(allScored(req[r].qemb))
\* the chunks of a ranking that carry the tag of the request, in its order
CarryingTag(r, ranking) ==
  SelectSeq(ranking, LAMBDA c : c.tag = req[r].desiredTag)

\* C22 as stated, the unrestricted ranking's top results being the three it
\* returns: every id of the tag-filtered ranking is the id of one of the
\* three results of the unrestricted ranking that carries the tag.
FilteredWithinTopThree ==
  \A r \in Slots :
    RankedWithTag(r) =>
      Range(Ids(req[r].topK))
        \subseteq Range(Ids(CarryingTag(r, SliceTo(Unrestricted(r), 3))))

\* C22: the tag-filtered ranking is the unrestricted ranking of the whole
\* corpus, not cut to three, with the chunks of other tags left out and
\* then cut to three: the same ids in the same order; and every chunk with
\* the tag among the three results of the unrestricted ranking is in it.
FilteredRefinesUnrestricted ==
  \A r \in Slots :
    RankedWithTag(r) =>
      /\ Ids(req[r].topK) = Ids(SliceTo(CarryingTag(r, Unrestricted(r)), 3))
      /\ Range(Ids(CarryingTag(r, SliceTo(Unrestricted(r), 3))))
           \subseteq Range(Ids(req[r].topK))

\* C22, its case: the tag-filtered ranking returned three chunks, and a
\* chunk of another tag is among the three results of the unrestricted
\* ranking, so that one of the three filtered results is not
FilteredReachesDeeper ==
  \E r \in Slots :
    /\ RankedWithTag(r)
    /\ Len(req[r].topK) = 3
    /\ \E i \in 1..3 : Unrestricted(r)[i].tag # req[r].desiredTag
    /\ \E i \in 1..3 :
         req[r].topK[i].id \notin Range(Ids(SliceTo(Unrestricted(r), 3)))

\* the query has a word with a letter only German writes / only Romanian
HasGermanLetter == \E i \in DOMAIN unit.text : unit.text[i] \in DeCharAtoms
HasRomanianLetter == \E i \in DOMAIN unit.text : unit.text[i] \in RoCharAtoms
\* the query has, marks and capitals aside, a function word of the language
HasWordOf(ws) ==
  \E i \in DOMAIN unit.text : StripMarksAtom(LowerAtom(unit.text[i])) \in ws
\* the class the lexical rules give the query
LexicalClass ==
  IF HasGermanLetter THEN "de"
  ELSE IF HasRomanianLetter THEN "ro"
  ELSE IF HasWordOf(DeWords) THEN "de"
  ELSE IF HasWordOf(RoWords) THEN "ro"
  ELSE "en"

\* C23 as stated: guessLang called on a query, and the classification
\* interviewAnswer uses for the query, both give 'de' for a German letter,
\* 'ro' for a Romanian letter and no German one, else 'de' for a German
\* function word, else 'ro' for a Romanian one, else 'en'.
LexicalOrder ==
  (Called("guessLang") \/ Called("interviewAnswer")) => unit.code = LexicalClass

\* C23, what holds: guessLang called on the query itself classifies so, and
\* so does the canned-answer stage of the first revision.
LexicalOrderOnRawText ==
  (Called("guessLang") \/ (Called("interviewAnswer") /\ build = "v1"))
    => unit.code = LexicalClass

\* C23, its case: guessLang on a query with a German letter and a Romanian
\* function word has returned 'de'
GermanLetterBeatsWord ==
  /\ Called("guessLang")
  /\ unit.text = <<"für", " ", "ce">>
  /\ unit.code = "de"

\* C24: no step of a /chat request changes the loaded corpus: it keeps its
\* chunks, in their order, with their id, tag, text and embedding.
CorpusImmutable == [][KB' = KB]_vars

\* C24, its case: a request has been answered from a ranking whose order is
\* not the order of the corpus, and a second request has been received
RankedOutOfCorpusOrder ==
  /\ received = 2
  /\ \E r \in Slots :
       /\ Generated(r) /\ Ranked(r)
       /\ Len(req[r].topK) = 3
       /\ Ids(req[r].topK) # Ids(SliceTo(KB, 3))

\* the request has built its prompt and issued the generation call
PromptBuilt(r) == "gen" \in Range(req[r].calls)
\* the request has completed a turn: it has stored its question and answer
TurnStored(r) == req[r].pc = "done" /\ "append" \in Range(req[r].stages)
\* the two entries a completed turn stores
TurnEntries(r) ==
  { [role |-> "user", content |-> req[r].message],
    [role |-> "assistant", content |-> AnswerOf(r)] }

\* C25: every history entry in the prompt of a request was stored by
\* another request that completed its turn and carried the same session id
\* (none, for the session 'default'); and a request without a session id
\* works on the session 'default'.
SessionIsolation ==
  \A r \in ConcSlots :
    /\ (Started(r) /\ req[r].sid # "" /\ req[r].sessionId = "")
         => req[r].sid = "default"
    /\ PromptBuilt(r) =>
         \A i \in DOMAIN req[r].history :
           \E k \in ConcSlots \ {r} :
             /\ TurnStored(k)
             /\ req[k].sessionId = req[r].sessionId
             /\ req[r].history[i] \in TurnEntries(k)

\* C25, its case: a request without a session id and one of session s1
\* have completed turns with different questions, and a third request
\* without a session id has built its prompt, with the first one's turn in it
TwoSessionsOnePrompt ==
  /\ TurnStored(1) /\ req[1].sessionId = ""
  /\ TurnStored(2) /\ req[2].sessionId = "s1"
  /\ req[1].message # req[2].message
  /\ PromptBuilt(3) /\ req[3].sessionId = ""
  /\ Len(req[3].history) = 2
  /\ req[3].history[1].content = req[1].message

\* C26: in every state each session's history has an even number of
\* entries, a user entry at every odd place and an assistant entry at every
\* even place; so it starts with a user entry and ends with an assistant
\* entry, also once entries have been dropped and when turns overlap.
RolesAlternate ==
  \A sid \in DOMAIN conversations :
    LET h == conversations[sid] IN
    /\ Len(h) % 2 = 0
    /\ \A i \in DOMAIN h :
         h[i].role = IF i % 2 = 1 THEN "user" ELSE "assistant"

\* C26, its case: two requests of session s1 were in flight together (the
\* second built its prompt before the first stored its turn, and stored its
\* own turn after it), and storing the second turn dropped the two oldest
\* entries of the 20
OverlapAtTheLimit ==
  \E r1, r2 \in ConcSlots :
    /\ r1 # r2 /\ TurnStored(r1) /\ TurnStored(r2)
    /\ req[r1].sid = "s1" /\ req[r2].sid = "s1"
    /\ req[r1].message = MsgHobbies
    /\ \A i \in DOMAIN req[r2].history : req[r2].history[i].content # MsgHobbies
    /\ Len(conversations["s1"]) = 20
    /\ conversations["s1"][17].content = MsgHobbies
    /\ conversations["s1"][19].content = req[r2].message

\* a response that is no answer to the question: a failure outcome or one of
\* the fixed texts of the blank-input, no-context, clarification and
\* out-of-scope returns
Refusal(resp) ==
  \/ resp.status # 200
  \/ resp.answer \in {PleaseAsk, NoContext, NotInScope} \cup {Clarify(l) : l \in Langs}
\* the request in slot r ends in this step
EndsNow(r) == req'[r] # req[r] /\ req'[r].pc = "done"

\* C27: the step in which a request ends with the blank-input, no-context,
\* clarification or out-of-scope answer or with a failure outcome leaves the
\* stored turns of every session as they were, and so does every step that
\* ends no request; so such a request stores no user and no assistant entry.
RefusalStoresNothing ==
  /\ [][\A r \in Slots :
          EndsNow(r) /\ Refusal(Last(req'[r].responses))
            => \A sid \in DOMAIN conversations' :
                 HistoryOf(conversations', sid) = HistoryOf(conversations, sid)]_vars
  /\ [][(\A r \in Slots : ~EndsNow(r))
            => \A sid \in DOMAIN conversations' :
                 HistoryOf(conversations', sid) = HistoryOf(conversations, sid)]_vars

\* C27, its case: a session holds one stored turn and its second request has
\* ended with a failure of an upstream call; the history still holds the two
\* entries of the first turn
FailureAfterStoredTurn ==
  /\ build = "v3" /\ received = MaxRequests /\ req[1].pc = "done"
  /\ req[1].responses[1].status # 200
  /\ req[1].sid \in DOMAIN conversations
  /\ Len(conversations[req[1].sid]) = 2
  /\ conversations[req[1].sid][1].content # req[1].message

\* the requests with the question key that have reached style selection
Picked(key) ==
  {r \in ConcSlots : "style" \in Range(req[r].stages) /\ rrKey(req[r].message) = key}
\* the question keys of the requests received so far
KeysReceived == {rrKey(req[r].message) : r \in {q \in ConcSlots : req[q].pc # "idle"}}

\* C28: in every state, under any interleaving of concurrent requests, the
\* style counter of a question key equals the number of requests with that
\* key that passed the scope check and reached style selection, requests
\* with a section tag and requests whose generation call failed included;
\* each such request raises the counter of its key by one, and no step
\* lowers or removes a counter.
NoLostIncrement ==
  /\ [](\A key \in KeysReceived \cup DOMAIN rrMap :
          rrGet(key) = Cardinality(Picked(key)))
  /\ [][\A key \in DOMAIN rrMap :
          /\ key \in DOMAIN rrMap'
          /\ rrMap'[key] \in {rrMap[key], rrMap[key] + 1}]_vars

\* C28, its case: three requests with the key 'skills?', in two spellings
\* and with a section tag, were in flight together; the generation call of
\* one of them failed while another was still awaited; the counter of the
\* key is 3
ThreeConcurrentPicks ==
  /\ rrGet(<<"skills", "?">>) = 3
  /\ \A r \in ConcSlots : isSection(req[r].desiredTag)
  /\ \E r \in ConcSlots : req[r].pc = "awaitGen"
  /\ \E r \in ConcSlots : req[r].pc = "done" /\ req[r].responses[1].status = 429
  /\ \E r1, r2 \in ConcSlots : req[r1].message # req[r2].message

\* a response that carries an answer, and one that reports a failure
IsAnswer(resp) == resp.status = 200 /\ resp.error = ""
IsFailure(resp) ==
  resp.status \in {429, 500} /\ resp.error \in {"quota_exceeded", "chat_failed"}

\* C29: a request never has more than one response; it has one exactly when
\* its handler has ended, and that response is either an answer or a failure
\* outcome; and when every call a request awaits eventually returns or
\* fails, every request that was received ends with its response.
OneResponse ==
  /\ [](\A r \in LiveSlots :
          /\ Len(req[r].responses) <= 1
          /\ req[r].pc = "done" <=> Len(req[r].responses) = 1
          /\ Len(req[r].responses) = 1
               => IsAnswer(req[r].responses[1]) \/ IsFailure(req[r].responses[1]))
  /\ \A r \in LiveSlots : (req[r].pc # "idle") ~> (req[r].pc = "done")

\* C29, its case: two requests were in flight together; one got a generated
\* answer after both of its calls returned, the other a failure outcome
\* after one of its calls failed; each has its one response
AnsweredAndFailed ==
  \E r1, r2 \in LiveSlots :
    /\ req[r1].pc = "done" /\ req[r2].pc = "done"
    /\ "gen" \in Range(req[r1].calls) /\ IsAnswer(req[r1].responses[1])
    /\ IsFailure(req[r2].responses[1])
    /\ Len(req[r1].responses) = 1 /\ Len(req[r2].responses) = 1

\* the request in slot r issues its generation call in this step
IssuesGeneration(r) == req[r].pc = "awaitEmbed" /\ req'[r].pc = "awaitGen"

\* C30: the message list of a generation call is the system prompt, then
\* the 6 most recent entries (all of them when there are fewer) the
\* request's own session holds when the call is issued, in their stored
\* order, then the current question as the last message; the step that
\* issues the call stores nothing, and the request has stored no turn.
PromptMessages ==
  [][\A r \in ConcSlots :
       IssuesGeneration(r) =>
         LET h == conversations[req[r].sid]
             m == req'[r].messages
         IN /\ m = << [role |-> "system", content |-> <<"personaSystem">>] >>
                      \o MostRecent(h, 6)
                      \o << [role |-> "user", content |-> req[r].message] >>
            /\ conversations' = conversations
            /\ "append" \notin Range(req'[r].stages)]_vars

\* C30, its case: a generation call is awaited whose message list has 8
\* messages; session s1 held more than 6 entries when it was issued, and the
\* entries sent include the turn another request stored before the call
LongHistoryPrompt ==
  \E r \in ConcSlots :
    /\ req[r].pc = "awaitGen" /\ req[r].sid = "s1"
    /\ Len(req[r].messages) = 8
    /\ req[r].messages[1].role = "system"
    /\ req[r].messages[6] = [role |-> "user", content |-> MsgHobbies]
    /\ req[r].messages[7].role = "assistant"
    /\ req[r].messages[8] = [role |-> "user", content |-> req[r].message]
    /\ Len(conversations["s1"]) = 20

=============================================================================
